---- MODULE Spec2Model ----
(***************************************************************************)
(* CricNex player analytics: the batch feature pipeline                    *)
(* (src/src/feature_engineering.py, src/src/model_training.py) and the     *)
(* online feature assembly of the prediction backend (src/src/backend.py). *)
(*                                                                         *)
(* Representation.                                                         *)
(*   - A string is the sequence of its code points, so that ordering,      *)
(*     lower-casing and substring search are computed, not assumed.        *)
(*   - A float is an exact rational [n, d] in lowest terms with d > 0;     *)
(*     NaN is [n |-> 0, d |-> 0].  Binary rounding error of float64 is not *)
(*     modelled.                                                           *)
(*   - A dict is a function whose DOMAIN is its key set; a DataFrame is    *)
(*     [columns, rows] with rows a sequence of dicts over the columns.     *)
(***************************************************************************)
EXTENDS Integers, Sequences, FiniteSets, TLC

(* ------------------------------ bounds -------------------------------- *)
MaxRecords == 2
MaxCareer == 12
MaxSecondCareer == 2

(* ------------------------------ strings ------------------------------- *)
Lower(ch) == IF ch \in 65..90 THEN ch + 32 ELSE ch

\* Series.str.contains(pat, case=False): pat occurs in s, ignoring case
\* (pat is a plain alphanumeric name here, so the regex is a literal).
StrContains(s, pat) ==
    \E k \in 0..(Len(s) - Len(pat)) :
        \A j \in 1..Len(pat) : Lower(s[k + j]) = Lower(pat[j])

RECURSIVE StrLess(_, _)
StrLess(s, t) ==
    IF s = <<>> THEN t # <<>>
    ELSE IF t = <<>> THEN FALSE
    ELSE IF s[1] # t[1] THEN s[1] < t[1]
    ELSE StrLess(Tail(s), Tail(t))

RECURSIVE StrCode(_)
StrCode(s) == IF s = <<>> THEN 0 ELSE StrCode(SubSeq(s, 1, Len(s) - 1)) * 128 + s[Len(s)]

(* ------------------------------ numbers ------------------------------- *)
RECURSIVE GCD(_, _)
GCD(a, b) == IF b = 0 THEN a ELSE GCD(b, a % b)

Abs(x) == IF x < 0 THEN -x ELSE x

NaN == [n |-> 0, d |-> 0]
IsNaN(x) == x.d = 0

Rat(n, d) ==
    IF d = 0 THEN NaN
    ELSE LET s == IF d < 0 THEN -1 ELSE 1
             g == GCD(Abs(n), Abs(d))
         IN  [n |-> (s * n) \div g, d |-> (s * d) \div g]

Num(k) == [n |-> k, d |-> 1]

RAdd(x, y) == IF IsNaN(x) \/ IsNaN(y) THEN NaN ELSE Rat(x.n * y.d + y.n * x.d, x.d * y.d)
RSub(x, y) == IF IsNaN(x) \/ IsNaN(y) THEN NaN ELSE Rat(x.n * y.d - y.n * x.d, x.d * y.d)
RMul(x, y) == IF IsNaN(x) \/ IsNaN(y) THEN NaN ELSE Rat(x.n * y.n, x.d * y.d)
RLess(x, y) == ~IsNaN(x) /\ ~IsNaN(y) /\ x.n * y.d < y.n * x.d

RECURSIVE SeqSum(_)
SeqSum(s) == IF s = <<>> THEN Num(0) ELSE RAdd(s[1], SeqSum(Tail(s)))

\* Series.mean(): NaN entries are skipped; the mean of nothing is NaN.
Mean(s) ==
    LET vals == SelectSeq(s, LAMBDA x : ~IsNaN(x))
    IN  IF vals = <<>> THEN NaN ELSE RMul(SeqSum(vals), Rat(1, Len(vals)))

\* round(x, 2): to the nearest hundredth, ties to the even hundredth.
Round2(x) ==
    IF IsNaN(x) THEN NaN
    ELSE LET q == (100 * x.n) \div x.d
             r == (100 * x.n) % x.d
             up == (2 * r > x.d) \/ (2 * r = x.d /\ q % 2 = 1)
         IN  Rat(IF up THEN q + 1 ELSE q, 100)

(* ----------------------------- sequences ------------------------------ *)
Range(s) == {s[i] : i \in 1..Len(s)}

Head5(s) == SubSeq(s, 1, IF Len(s) < 5 THEN Len(s) ELSE 5)

\* The elements of s at the (ascending) positions in idx.
RECURSIVE Pick(_, _)
Pick(s, idx) ==
    IF idx = {} THEN <<>>
    ELSE LET m == CHOOSE i \in idx : \A j \in idx : i <= j
         IN  <<s[m]>> \o Pick(s, idx \ {m})

\* Where x goes in the sorted sequence rest: after the longest prefix of
\* elements it does not precede (precedes is the set of positions of rest
\* that x is strictly less than), which keeps equal elements in order.
InsertAt(rest, x, precedes) ==
    LET p == IF precedes = {} THEN Len(rest)
             ELSE (CHOOSE i \in precedes : \A j \in precedes : i <= j) - 1
    IN  SubSeq(rest, 1, p) \o <<x>> \o SubSeq(rest, p + 1, Len(rest))

(* ----------------------------- DataFrames ----------------------------- *)
Col(df, c) == [i \in 1..Len(df.rows) |-> df.rows[i][c]]

\* df[c] = vals: a new column is appended, an existing one is overwritten.
SetCol(df, c, vals) ==
    [columns |-> IF c \in Range(df.columns) THEN df.columns ELSE Append(df.columns, c),
     rows |-> [i \in 1..Len(df.rows) |-> (c :> vals[i]) @@ df.rows[i]]]

\* The positions of the rows in the same group as row i (groupby(keys)).
Group(df, keys, i) ==
    {j \in 1..Len(df.rows) : \A k \in keys : df.rows[j][k] = df.rows[i][k]}

\* The positions of the rows whose column c contains pat, ignoring case.
Matching(df, c, pat) == {i \in 1..Len(df.rows) : StrContains(df.rows[i][c], pat)}

RowLess(a, b) ==
    \/ StrLess(a["player"], b["player"])
    \/ a["player"] = b["player"] /\ a["date"] < b["date"]

\* sort_values(['player', 'date']): a stable sort on two keys.
RECURSIVE SortByPlayerDate(_)
SortByPlayerDate(rows) ==
    IF rows = <<>> THEN <<>>
    ELSE LET rest == SortByPlayerDate(SubSeq(rows, 1, Len(rows) - 1))
             x == rows[Len(rows)]
         IN  InsertAt(rest, x, {i \in 1..Len(rest) : RowLess(x, rest[i])})

\* sort_values('date', ascending=False): most recent first.
RECURSIVE SortByDateDesc(_)
SortByDateDesc(rows) ==
    IF rows = <<>> THEN <<>>
    ELSE LET rest == SortByDateDesc(SubSeq(rows, 1, Len(rows) - 1))
             x == rows[Len(rows)]
         IN  InsertAt(rest, x, {i \in 1..Len(rest) : x["date"] > rest[i]["date"]})

RECURSIVE SortNums(_)
SortNums(s) ==
    IF s = <<>> THEN <<>>
    ELSE LET rest == SortNums(SubSeq(s, 1, Len(s) - 1))
             x == s[Len(s)]
         IN  InsertAt(rest, x, {i \in 1..Len(rest) : RLess(x, rest[i])})

FillNa(x, v) == IF IsNaN(x) THEN v ELSE x

(* ---------------- feature_engineering.py: FeatureEngineer -------------- *)
\* The columns of the player-match table of DataLoader.aggregate_match_stats.
BaseColumns ==
    <<"match_id", "player", "team", "opponent", "venue", "date", "season",
      "runs_scored", "balls_faced", "extra_runs", "strike_rate">>

Windows == <<5, 10>>

RollingNames(w) ==
    IF w = 5 THEN <<"runs_last_5_avg", "strike_rate_last_5", "balls_faced_last_5">>
    ELSE <<"runs_last_10_avg", "strike_rate_last_10", "balls_faced_last_10">>

\* Fault for C12: the player's mean over all the other records, later ones
\* included, stands for the rolling mean.
RollingMean_CareerMean(df, metric, w, i) ==
    Mean(Pick(Col(df, metric), Group(df, {"player"}, i) \ {i}))

\* Fault for C11: the mean is not shifted, so the window ends at row i.
RollingMean_Unshifted(df, metric, w, i) ==
    LET upto == {j \in Group(df, {"player"}, i) : j <= i}
        window == {j \in upto : Cardinality({k \in upto : k > j}) < w}
    IN  Mean(Pick(Col(df, metric), window))

\* x.rolling(window=w, min_periods=1).mean().shift(1) within the player's
\* group, at row i: the mean over the w rows of the group just before i.
RollingMean(df, metric, w, i) ==
    LET before == {j \in Group(df, {"player"}, i) : j < i}
        window == {j \in before : Cardinality({k \in before : k > j}) < w}
    IN  Mean(Pick(Col(df, metric), window))

RECURSIVE AddRolling(_, _)
AddRolling(df, ws) ==
    IF ws = <<>> THEN df
    ELSE LET w == ws[1]
             rows == 1..Len(df.rows)
             d1 == SetCol(df, RollingNames(w)[1],
                          [i \in rows |-> RollingMean(df, "runs_scored", w, i)])
             d2 == SetCol(d1, RollingNames(w)[2],
                          [i \in rows |-> RollingMean(df, "strike_rate", w, i)])
             d3 == SetCol(d2, RollingNames(w)[3],
                          [i \in rows |-> RollingMean(df, "balls_faced", w, i)])
         IN  AddRolling(d3, Tail(ws))

RollingColumns ==
    {"runs_last_5_avg", "strike_rate_last_5", "balls_faced_last_5",
     "runs_last_10_avg", "strike_rate_last_10", "balls_faced_last_10"}

create_rolling_features(df) ==
    LET sorted == [columns |-> df.columns, rows |-> SortByPlayerDate(df.rows)]
        rolled == AddRolling(sorted, Windows)
    IN  [columns |-> rolled.columns,
         rows |-> [i \in 1..Len(rolled.rows) |->
                     [c \in DOMAIN rolled.rows[i] |->
                        IF c \in RollingColumns THEN FillNa(rolled.rows[i][c], Num(0))
                        ELSE rolled.rows[i][c]]]]

\* Fault for C13: the player's expanding mean is not shifted, so it takes in
\* the record itself and never needs the fallback.
ContextFeatures_OwnUnshifted(df, dim, avgRuns, avgSr, playerAvg) ==
    LET rows == 1..Len(df.rows)
        runs == [i \in rows |-> Mean(Pick(Col(df, "runs_scored"), Group(df, {dim}, i)))]
        sr == [i \in rows |-> Mean(Pick(Col(df, "strike_rate"), Group(df, {dim}, i)))]
        own == [i \in rows |->
                  FillNa(Mean(Pick(Col(df, "runs_scored"),
                                   {j \in Group(df, {"player", dim}, i) : j <= i})),
                         runs[i])]
    IN  SetCol(SetCol(SetCol(df, avgRuns, runs), avgSr, sr), playerAvg, own)

\* Fault for C14: the dimension-wide means leave the record itself out.
ContextFeatures_LeaveOneOut(df, dim, avgRuns, avgSr, playerAvg) ==
    LET rows == 1..Len(df.rows)
        runs == [i \in rows |->
                   Mean(Pick(Col(df, "runs_scored"), Group(df, {dim}, i) \ {i}))]
        sr == [i \in rows |->
                 Mean(Pick(Col(df, "strike_rate"), Group(df, {dim}, i) \ {i}))]
        own == [i \in rows |->
                  FillNa(Mean(Pick(Col(df, "runs_scored"),
                                   {j \in Group(df, {"player", dim}, i) : j < i})),
                         runs[i])]
    IN  SetCol(SetCol(SetCol(df, avgRuns, runs), avgSr, sr), playerAvg, own)

\* The two passes of the contextual aggregator for one dimension (venue or
\* opponent): the dimension-wide means, then the player's expanding mean at
\* that dimension value, shifted, with the dimension-wide mean as fallback.
ContextFeatures(df, dim, avgRuns, avgSr, playerAvg) ==
    LET rows == 1..Len(df.rows)
        runs == [i \in rows |-> Mean(Pick(Col(df, "runs_scored"), Group(df, {dim}, i)))]
        sr == [i \in rows |-> Mean(Pick(Col(df, "strike_rate"), Group(df, {dim}, i)))]
        own == [i \in rows |->
                  FillNa(Mean(Pick(Col(df, "runs_scored"),
                                   {j \in Group(df, {"player", dim}, i) : j < i})),
                         runs[i])]
    IN  SetCol(SetCol(SetCol(df, avgRuns, runs), avgSr, sr), playerAvg, own)

create_venue_features(df) ==
    ContextFeatures(df, "venue", "venue_avg_runs", "venue_avg_strike_rate",
                    "player_venue_avg_runs")

create_opponent_features(df) ==
    ContextFeatures(df, "opponent", "opponent_avg_runs", "opponent_avg_strike_rate",
                    "player_opponent_avg_runs")

\* Fault for C15: among equally frequent venues the one met last is taken.
HomeVenue_LastMet(df, team) ==
    LET mine == {i \in 1..Len(df.rows) : df.rows[i]["team"] = team}
        count(i) == Cardinality({j \in mine : df.rows[j]["venue"] = df.rows[i]["venue"]})
        best == {i \in mine : \A j \in mine : count(j) <= count(i)}
        last == CHOOSE i \in best : \A j \in best : j <= i
    IN  df.rows[last]["venue"]

\* x.value_counts().index[0] over the venues of one team: the most frequent
\* venue, the one met first in the table among equally frequent ones.
HomeVenue(df, team) ==
    LET mine == {i \in 1..Len(df.rows) : df.rows[i]["team"] = team}
        count(i) == Cardinality({j \in mine : df.rows[j]["venue"] = df.rows[i]["venue"]})
        best == {i \in mine : \A j \in mine : count(j) <= count(i)}
        first == CHOOSE i \in best : \A j \in best : i <= j
    IN  df.rows[first]["venue"]

create_home_away_feature(df) ==
    SetCol(df, "is_home_match",
           [i \in 1..Len(df.rows) |->
              IF HomeVenue(df, df.rows[i]["team"]) = df.rows[i]["venue"] THEN 1 ELSE 0])

Quantiles == 11
MiddleOrder == 6

\* Series.quantile(k / 11) with linear interpolation, over the sorted values.
Quantile(sorted, k) ==
    LET n == Len(sorted)
        lo == ((n - 1) * k) \div Quantiles
        frac == Rat(((n - 1) * k) % Quantiles, Quantiles)
    IN  IF lo + 2 > n THEN sorted[lo + 1]
        ELSE RAdd(sorted[lo + 1], RMul(RSub(sorted[lo + 2], sorted[lo + 1]), frac))

\* The value binned by create_batting_position_feature: the player's mean
\* balls faced, on every row of that player.
AvgBalls(df) ==
    [i \in 1..Len(df.rows) |-> Mean(Pick(Col(df, "balls_faced"), Group(df, {"player"}, i)))]

BinEdges(df) == [k \in 1..(Quantiles + 1) |-> Quantile(SortNums(AvgBalls(df)), k - 1)]

\* pd.qcut(x, q=11, labels=range(1, 12), duplicates='drop') raises ValueError
\* when a duplicate edge was dropped: the 11 labels no longer match the bins
\* (and on an empty table, which has no quantile).
QcutRaises(df) ==
    \/ df.rows = <<>>
    \/ Cardinality(Range(BinEdges(df))) < Quantiles + 1

\* The bin of x: searchsorted(side='left') over the edges, the lowest edge
\* included in bin 1; outside every bin is NaN.
QcutLabel(edges, x) ==
    LET below == Cardinality({k \in 1..Len(edges) : RLess(edges[k], x)})
    IN  IF x = edges[1] THEN Num(1)
        ELSE IF below = 0 \/ below = Len(edges) THEN NaN
        ELSE Num(below)

create_batting_position_feature(df) ==
    LET edges == BinEdges(df)
        x == AvgBalls(df)
    IN  SetCol(df, "batting_position",
               [i \in 1..Len(df.rows) |-> FillNa(QcutLabel(edges, x[i]), Num(MiddleOrder)).n])

DefaultRestDays == 7
MaxRestDays == 30

\* A clip that has no upper limit (a variant, to show what C18 detects).
Clip_NoUpperLimit(v, lo, hi) == IF v < lo THEN lo ELSE v

\* Series.clip(lower, upper)
Clip(v, lo, hi) == IF v < lo THEN lo ELSE IF v > hi THEN hi ELSE v

\* Match context in which the match number runs over the whole career of
\* the player, not over one season (a variant, to show what C19 detects).
create_match_context_features_CareerCount(df) ==
    LET rows == 1..Len(df.rows)
        number == [i \in rows |-> Cardinality({j \in Group(df, {"player"}, i) : j <= i})]
        prev(i) == {j \in Group(df, {"player"}, i) : j < i}
        last(i) == CHOOSE j \in prev(i) : \A k \in prev(i) : k <= j
        days == [i \in rows |->
                   Clip(IF prev(i) = {} THEN DefaultRestDays
                        ELSE df.rows[i]["date"] - df.rows[last(i)]["date"],
                        0, MaxRestDays)]
    IN  SetCol(SetCol(df, "match_number_in_season", number), "days_since_last_match", days)

create_match_context_features(df) ==
    LET rows == 1..Len(df.rows)
        number == [i \in rows |->
                     Cardinality({j \in Group(df, {"player", "season"}, i) : j <= i})]
        prev(i) == {j \in Group(df, {"player"}, i) : j < i}
        last(i) == CHOOSE j \in prev(i) : \A k \in prev(i) : k <= j
        days == [i \in rows |->
                   Clip(IF prev(i) = {} THEN DefaultRestDays
                        ELSE df.rows[i]["date"] - df.rows[last(i)]["date"],
                        0, MaxRestDays)]
    IN  SetCol(SetCol(df, "match_number_in_season", number), "days_since_last_match", days)

CategoricalCols == <<"player", "team", "opponent", "venue">>

Encoded(c) ==
    CASE c = "player" -> "player_encoded"
      [] c = "team" -> "team_encoded"
      [] c = "opponent" -> "opponent_encoded"
      [] c = "venue" -> "venue_encoded"

\* Fault for C10: classes_ held in descending order, so labels count the
\* values above a value instead of those below it.
LabelEncode_Descending(values, v) == Cardinality({u \in values : StrLess(v, u)})

\* LabelEncoder().fit_transform(values): classes_ are the distinct values in
\* sorted order, a value's label is its position in classes_, from 0.
LabelEncode(values, v) == Cardinality({u \in values : StrLess(u, v)})

RECURSIVE EncodeCols(_, _)
EncodeCols(df, cols) ==
    IF cols = <<>> THEN df
    ELSE LET c == cols[1]
             next == IF c \in Range(df.columns)
                     THEN SetCol(df, Encoded(c),
                                 [i \in 1..Len(df.rows) |->
                                    LabelEncode(Range(Col(df, c)), df.rows[i][c])])
                     ELSE df
         IN  EncodeCols(next, Tail(cols))

encode_categorical_features(df) == EncodeCols(df, CategoricalCols)

(* ---------------- model_training.py: ModelTrainer ---------------------- *)
ExcludeCols ==
    {"runs_scored", "match_id", "player", "team", "opponent", "venue",
     "date", "balls_faced", "extra_runs", "season", "is_valid_ball"}

\* prepare_data: feature_columns, the columns the models are fitted on.
prepare_data(df) == SelectSeq(df.columns, LAMBDA c : c \notin ExcludeCols)

(* ---------------- backend.py: CricNexBackend --------------------------- *)
\* Python's None, for an optional float; None for an optional object is the
\* empty sequence and Some(x) the one-element sequence.
PyNone == [n |-> 0, d |-> -1]
None == <<>>
Some(x) == <<x>>

EmptyDict == [k \in {} |-> 0]

\* dict.get(k, default)
Get(d, k, default) == IF k \in DOMAIN d THEN d[k] ELSE default

\* hash(s) of a str: CPython keys it with a seed drawn once per process, so
\* it is one table per process; the model draws the table from this family.
PyHash(seed, s) == seed * (StrCode(s) + 1)

PlayerHashMod == 1000
TeamHashMod == 20
VenueHashMod == 50

DefaultRuns == 30
DefaultStrikeRate == 130
DefaultVenueRuns == 32
DefaultBattingPosition == 4

MaxVals(s) == CHOOSE x \in Range(s) : \A y \in Range(s) : ~RLess(x, y)

\* int(x): truncation toward zero of a non-negative float
IntOf(x) == x.n \div x.d

OptionalStat(df, idx, c) ==
    IF c \in Range(df.columns) THEN (c :> Round2(Mean(Pick(Col(df, c), idx)))) ELSE EmptyDict

_get_player_recent_stats(features_df, player_name) ==
    IF features_df = None THEN EmptyDict
    ELSE LET df == features_df[1]
             player_data == Matching(df, "player", player_name)
             recent == Head5(SortByDateDesc(Pick(df.rows, player_data)))
             runs == [i \in 1..Len(recent) |-> recent[i]["runs_scored"]]
             sr == [i \in 1..Len(recent) |-> recent[i]["strike_rate"]]
             stats == [runs_last_5_avg |-> Round2(Mean(runs)),
                       strike_rate_last_5 |-> Round2(Mean(sr)),
                       matches_played |-> Cardinality(player_data),
                       career_avg |-> Round2(Mean(Pick(Col(df, "runs_scored"), player_data))),
                       highest_score |-> IntOf(MaxVals(Pick(Col(df, "runs_scored"), player_data)))]
         IN  IF player_data = {} THEN EmptyDict
             ELSE OptionalStat(df, player_data, "opponent_avg_strike_rate")
                  @@ OptionalStat(df, player_data, "venue_avg_strike_rate")
                  @@ OptionalStat(df, player_data, "opponent_avg_runs")
                  @@ OptionalStat(df, player_data, "venue_avg_runs")
                  @@ stats

\* Fault for C5: with no matching row the block goes to the literal defaults
\* instead of the means over the whole snapshot.
ResolvePair_LiteralWhenUnmatched(features_df, matches, first, second, keepSecond, defaultFirst, defaultSecond) ==
    IF first = PyNone /\ features_df # None /\ matches # <<>>
    THEN <<Mean([i \in 1..Len(matches) |-> matches[i]["runs_scored"]]),
           IF keepSecond /\ second # PyNone THEN second
           ELSE Mean([i \in 1..Len(matches) |-> matches[i]["strike_rate"]])>>
    ELSE <<IF first # PyNone THEN first ELSE defaultFirst,
           IF second # PyNone THEN second ELSE defaultSecond>>

\* One of the three blocks of _create_feature_vector that resolve a pair of
\* fields (an average of runs and the strike rate that goes with it) for the
\* rows matching one entity.  keepSecond is TRUE for the recency block only,
\* which keeps a supplied strike rate when it computes from matching rows.
ResolvePair(features_df, matches, first, second, keepSecond, defaultFirst, defaultSecond) ==
    IF first = PyNone /\ features_df # None
    THEN LET df == features_df[1]
         IN  IF matches # <<>>
             THEN <<Mean([i \in 1..Len(matches) |-> matches[i]["runs_scored"]]),
                    IF keepSecond /\ second # PyNone THEN second
                    ELSE Mean([i \in 1..Len(matches) |-> matches[i]["strike_rate"]])>>
             ELSE <<Mean(Col(df, "runs_scored")), Mean(Col(df, "strike_rate"))>>
    ELSE <<IF first # PyNone THEN first ELSE defaultFirst,
           IF second # PyNone THEN second ELSE defaultSecond>>

MatchingRows(features_df, c, pat) ==
    IF features_df = None THEN <<>>
    ELSE Pick(features_df[1].rows, Matching(features_df[1], c, pat))

_create_feature_vector(features_df, seed, input_data) ==
    LET player_name == input_data["player"]
        team_name == input_data["team"]
        opponent_name == input_data["opponent"]
        venue_name == input_data["venue"]
        player_matches == MatchingRows(features_df, "player", player_name)
        player_encoded ==
            IF features_df # None /\ player_matches # <<>>
                 /\ "player_encoded" \in Range(features_df[1].columns)
            THEN player_matches[1]["player_encoded"]
            ELSE PyHash(seed, player_name) % PlayerHashMod
        team_encoded == PyHash(seed, team_name) % TeamHashMod
        opponent_encoded == PyHash(seed, opponent_name) % TeamHashMod
        venue_encoded == PyHash(seed, venue_name) % VenueHashMod
        recency == ResolvePair(features_df,
                               Head5(SortByDateDesc(player_matches)),
                               Get(input_data, "runs_last_5_avg", PyNone),
                               Get(input_data, "strike_rate_last_5", PyNone),
                               TRUE, Num(DefaultRuns), Num(DefaultStrikeRate))
        venue == ResolvePair(features_df,
                             MatchingRows(features_df, "venue", venue_name),
                             Get(input_data, "venue_avg_runs", PyNone),
                             Get(input_data, "venue_avg_strike_rate", PyNone),
                             FALSE, Num(DefaultVenueRuns), Num(DefaultStrikeRate))
        opponent == ResolvePair(features_df,
                                MatchingRows(features_df, "opponent", opponent_name),
                                Get(input_data, "opponent_avg_runs", PyNone),
                                Get(input_data, "opponent_avg_strike_rate", PyNone),
                                FALSE, Num(DefaultRuns), Num(DefaultStrikeRate))
        is_home_match == Get(input_data, "is_home_match", 0)
        batting_position == Get(input_data, "batting_position", DefaultBattingPosition)
    IN  <<player_encoded, team_encoded, opponent_encoded, venue_encoded,
          recency[1], recency[2], venue[1],
          opponent[1], is_home_match, batting_position,
          venue[2], opponent[2]>>

\* The names of the positions of the vector _create_feature_vector returns.
VectorColumns ==
    <<"player_encoded", "team_encoded", "opponent_encoded", "venue_encoded",
      "runs_last_5_avg", "strike_rate_last_5", "venue_avg_runs",
      "opponent_avg_runs", "is_home_match", "batting_position",
      "venue_avg_strike_rate", "opponent_avg_strike_rate">>

_calculate_confidence(input_data) ==
    LET score == (IF "runs_last_5_avg" \in DOMAIN input_data THEN 1 ELSE 0)
                 + (IF "strike_rate_last_5" \in DOMAIN input_data THEN 1 ELSE 0)
                 + (IF Get(input_data, "matches_played", 0) > 10 THEN 1 ELSE 0)
    IN  IF score >= 2 THEN "high" ELSE IF score = 1 THEN "medium" ELSE "low"

(* ------------------------------ inputs -------------------------------- *)
\* Names, as code points: "aB", "b", "a", "c"; "x", "y", "z"; "Wv", "v", "wV".
PlayerAB == <<97, 66>>
PlayerA == <<97>>
PlayerB == <<98>>
PlayerC == <<99>>
TeamX == <<120>>
TeamY == <<121>>
NameZ == <<122>>
VenueWv == <<87, 118>>
VenueV == <<118>>
VenueLowerUpper == <<119, 86>>

Players == {PlayerAB, PlayerB}
Matches == {1, 2}
RunsValues == {10, 40}
HashSeeds == {0, 1}

PlayerTeam(p) == IF p = PlayerAB THEN TeamX ELSE TeamY
PlayerBalls(p) == IF p = PlayerAB THEN 10 ELSE 20
OtherTeam(t) == IF t = TeamX THEN TeamY ELSE TeamX
MatchVenue(m) == IF m = 1 THEN VenueWv ELSE VenueV

\* One row of the player-match table: strike_rate = runs / balls * 100.
Record(m, p, r) ==
    [match_id |-> m, player |-> p, team |-> PlayerTeam(p),
     opponent |-> OtherTeam(PlayerTeam(p)), venue |-> MatchVenue(m),
     date |-> m, season |-> 2024,
     runs_scored |-> Num(r), balls_faced |-> Num(PlayerBalls(p)),
     extra_runs |-> Num(0), strike_rate |-> Rat(r * 100, PlayerBalls(p))]

Records == {Record(m, p, r) : m \in Matches, p \in Players, r \in RunsValues}

\* The tables handed to FeatureEngineer: one row per (player, match).  The
\* class takes any table and sorts it itself, so the rows come in any order,
\* the (player, date) order of load_ipl_data among them.
Corpora ==
    UNION {{c \in [1..n -> Records] :
                \A i, j \in 1..n :
                    (c[i]["player"] = c[j]["player"] /\ c[i]["match_id"] = c[j]["match_id"])
                        => i = j} : n \in 1..MaxRecords}

(* ------------------- inputs of the batch pipeline alone ---------------- *)
\* Players "a", "b", ..., by number; odd numbers play for "x", even for "y".
SquadPlayer(p) == <<96 + p>>
SquadTeam(p) == IF p % 2 = 1 THEN TeamX ELSE TeamY

\* The k-th innings of a player's career: days between innings run through
\* Gaps (two innings on one day, an off-season gap among them), the season
\* changes after the off-season gaps; venue and opponent go round.
Gaps == <<3, 0, 45, 7>>

RECURSIVE CareerDay(_)
CareerDay(k) == IF k = 1 THEN 1 ELSE CareerDay(k - 1) + Gaps[((k - 2) % Len(Gaps)) + 1]

CareerSeason(k) == 2023 + ((k + 1) \div Len(Gaps))
CareerVenue(k) == <<VenueWv, VenueV, VenueLowerUpper>>[(k % 3) + 1]
CareerRuns(k) == (7 * k * k) % 53
CareerBalls(k) == 5 + ((3 * k) % 11)

\* One row of the player-match table.
Innings(id, p, opponent, venue, day, season, runs, balls) ==
    [match_id |-> id, player |-> SquadPlayer(p), team |-> SquadTeam(p),
     opponent |-> opponent, venue |-> venue, date |-> day, season |-> season,
     runs_scored |-> Num(runs), balls_faced |-> Num(balls),
     extra_runs |-> Num(0), strike_rate |-> Rat(runs * 100, balls)]

CareerInnings(p, k) ==
    Innings(100 * p + k, p, IF (k + p) % 2 = 0 THEN OtherTeam(SquadTeam(p)) ELSE NameZ,
            CareerVenue(k + p), CareerDay(k) + p - 1, CareerSeason(k),
            CareerRuns(k + p - 1), CareerBalls(k + 2 * (p - 1)))

Reverse(s) == [i \in 1..Len(s) |-> s[Len(s) + 1 - i]]

\* Careers: n1 innings of player 1 and n2 of player 2, player 2 first, in
\* chronological or in reverse order.
Career(n1, n2, reversed) ==
    LET rows == [i \in 1..(n1 + n2) |->
                   IF i <= n2 THEN CareerInnings(2, i) ELSE CareerInnings(1, i - n2)]
    IN  IF reversed THEN Reverse(rows) ELSE rows

Careers ==
    {Career(n1, n2, reversed) :
        n1 \in 0..MaxCareer, n2 \in 0..MaxSecondCareer, reversed \in BOOLEAN} \ {<<>>}

\* Squads: np players with one innings each and pairwise distinct balls
\* faced; player extra (if not 0) has a second innings, gap days later, in
\* the same or in the next season.
Squad(np, extra, gap, nextSeason) ==
    LET first == [p \in 1..np |->
                    Innings(p, p, OtherTeam(SquadTeam(p)), CareerVenue(p), p, 2023,
                            CareerRuns(p), 10 + 2 * p)]
    IN  IF extra = 0 THEN first
        ELSE Append(first,
                    Innings(np + 1, extra, NameZ, CareerVenue(extra + 1), extra + gap,
                            IF nextSeason THEN 2024 ELSE 2023,
                            CareerRuns(extra + 3), 11 + 2 * extra))

SquadSizes == {11, 12}

Squads ==
    {Squad(np, extra, gap, nextSeason) :
        np \in SquadSizes, extra \in {0, 1, 6, 11}, gap \in {3, 45},
        nextSeason \in BOOLEAN}

\* Seasons: twelve players with two innings each (the even-numbered ones
\* both on one day, every third one the second in the next season), and a
\* third innings of player third (if not 0), gap days after the second.
\* Runs are a multiple of half the balls faced, so strike rates are whole.
SeasonInnings(p, k) ==
    Innings(200 + 20 * k + p, p, IF k = 2 THEN NameZ ELSE OtherTeam(SquadTeam(p)),
            CareerVenue(p + k), IF k = 1 \/ p % 2 = 0 THEN p ELSE p + 3,
            IF k = 2 /\ p % 3 = 0 THEN 2024 ELSE 2023,
            (5 + p) * ((p + k) % 4), 10 + 2 * p)

Season(third, gap, reversed) ==
    LET two == [i \in 1..24 |-> SeasonInnings(((i - 1) % 12) + 1, ((i - 1) \div 12) + 1)]
        rows == IF third = 0 THEN two
                ELSE Append(two, Innings(300, third, NameZ, CareerVenue(third),
                                         SeasonInnings(third, 2)["date"] + gap,
                                         SeasonInnings(third, 2)["season"],
                                         (5 + third) * 3, 10 + 2 * third))
    IN  IF reversed THEN Reverse(rows) ELSE rows

Seasons ==
    {Season(third, gap, reversed) :
        third \in {0, 1, 12}, gap \in {0, 45}, reversed \in BOOLEAN}

BatchCorpora == Careers \cup Squads \cup Seasons

RequiredFields == {"player", "team", "opponent", "venue"}

OptionalFields ==
    {"runs_last_5_avg", "strike_rate_last_5", "venue_avg_runs",
     "venue_avg_strike_rate", "opponent_avg_runs", "opponent_avg_strike_rate"}

\* The value a caller supplies for an optional field, when it supplies one.
Supplied ==
    [runs_last_5_avg |-> Num(45), strike_rate_last_5 |-> Num(140),
     venue_avg_runs |-> Num(55), venue_avg_strike_rate |-> Num(150),
     opponent_avg_runs |-> Num(35), opponent_avg_strike_rate |-> Num(120)]

ValidRequests ==
    {[k \in opts |-> Supplied[k]]
        @@ [player |-> p, team |-> t, opponent |-> o, venue |-> v] :
        p \in {PlayerAB, PlayerB, PlayerA, PlayerC}, t \in {TeamX},
        o \in {TeamX, NameZ}, v \in {VenueLowerUpper, NameZ},
        opts \in SUBSET OptionalFields}

\* Requests that lack one required field.
InvalidRequests ==
    {[k \in RequiredFields \ {f} |->
        [player |-> PlayerAB, team |-> TeamX, opponent |-> TeamX, venue |-> NameZ][k]] :
        f \in RequiredFields}

Requests == ValidRequests \cup InvalidRequests

\* The items of the bodies sent to /api/predict/batch, and the bodies.
MaxBatch == 2

BatchItems ==
    InvalidRequests
        \cup {r \in ValidRequests :
                /\ r["player"] \in {PlayerAB, PlayerC}
                /\ r["opponent"] = TeamX
                /\ r["venue"] = NameZ
                /\ DOMAIN r = RequiredFields}

RECURSIVE Lists(_, _)
Lists(S, n) ==
    IF n = 0 THEN {<<>>}
    ELSE Lists(S, n - 1) \cup {Append(l, x) : l \in {m \in Lists(S, n - 1) : Len(m) = n - 1}, x \in S}

Batches == Lists(BatchItems, MaxBatch)

(* ------------------------------- state -------------------------------- *)
VARIABLES
    pc,             \* where the batch run (main.py: run_pipeline) stands
    corpus,         \* the table the FeatureEngineer was constructed with
    df,             \* FeatureEngineer.df
    loader,         \* the DataLoader of the batch run, while it loads: the
                    \* two files and deliveries_df, matches_df, merged_df
    features_file,  \* data/features.csv: None, or Some(table)
    model_file,     \* models/best_model.pkl: None, or Some(model_data)
    models_dir,     \* the other files of models/: model name -> model_data
    backend_up,     \* a CricNexBackend process is serving
    features_df,    \* CricNexBackend.features_df: None, or Some(table)
    players_stats,  \* CricNexBackend.players_stats: None, or Some(player -> row)
    model_data,     \* CricNexBackend.model_data: None, or Some(model_data)
    all_models,     \* CricNexBackend.all_models: model name -> model_data
    mongo,          \* CricNexBackend.mongo: "absent" (None), or a handler
                    \* that is "connected" or "disconnected"
    hashseed,       \* the hash seed of the backend process
    startup_error,  \* None, or Some(the exception that ended the last start)
    request,        \* the last call: None, or Some([endpoint, body])
    call,           \* the derivation of the last request: None, or
                    \* Some([input_data, player_stats, prediction_input, features])
    steps,          \* what the last call did for each request it carried:
                    \* [item, player_stats, features, model_called, error]
    response,       \* the last response: None, or Some([status, body])
    threads         \* the request each thread of the server is handling:
                    \* [stage, data, player_stats, features, outcome]

vars == <<pc, corpus, df, loader, features_file, model_file, models_dir, backend_up,
          features_df, players_stats, model_data, all_models, mongo, hashseed,
          startup_error, request, call, steps, response, threads>>

batch_vars == <<pc, corpus, df, loader>>
file_vars == <<features_file, model_file, models_dir>>
model_files == <<model_file, models_dir>>
backend_vars == <<backend_up, features_df, players_stats, model_data,
                  all_models, mongo, hashseed, startup_error, request, call,
                  steps, response, threads>>
loaded_vars == <<backend_up, features_df, players_stats, model_data, all_models,
                 mongo, hashseed, startup_error>>
serial_vars == <<request, call, steps, response>>

\* The threads of the development server (one per request in flight), and
\* a thread that handles no request.
MaxThreads == 2
Threads == 1..MaxThreads
Idle == [stage |-> "idle", data |-> <<>>, player_stats |-> <<>>,
         features |-> <<>>, outcome |-> <<>>]

NoTable == [columns |-> <<>>, rows |-> <<>>]

\* The run has no DataLoader (any more): its tables are not followed.
NoLoader == None

Init ==
    /\ corpus \in Corpora
    /\ df = [columns |-> BaseColumns, rows |-> corpus]
    /\ pc = "rolling"
    /\ loader = NoLoader
    /\ features_file = None
    /\ model_file = None
    /\ models_dir = EmptyDict
    /\ backend_up = FALSE
    /\ features_df = None
    /\ players_stats = None
    /\ model_data = None
    /\ all_models = EmptyDict
    /\ mongo = "absent"
    /\ hashseed = 0
    /\ startup_error = None
    /\ request = None
    /\ call = None
    /\ steps = <<>>
    /\ response = None
    /\ threads = [t \in Threads |-> Idle]

(* ------------------- main.py: the batch run, step by step -------------- *)
Stage(at, result, next) ==
    /\ pc = at
    /\ df' = result
    /\ pc' = next
    /\ UNCHANGED <<corpus, loader, file_vars, backend_vars>>

\* The run ends: its objects are gone, the files it wrote stay.
Exit(how) ==
    /\ pc' = how
    /\ corpus' = <<>>
    /\ df' = NoTable
    /\ loader' = NoLoader

CreateRollingFeatures == Stage("rolling", create_rolling_features(df), "venue")
CreateVenueFeatures == Stage("venue", create_venue_features(df), "opponent")
CreateOpponentFeatures == Stage("opponent", create_opponent_features(df), "home")
CreateHomeAwayFeature == Stage("home", create_home_away_feature(df), "batting")

CreateBattingPositionFeature ==
    /\ ~QcutRaises(df)
    /\ Stage("batting", create_batting_position_feature(df), "context")

\* pd.qcut raises: run_pipeline prints the traceback and the run is over.
BattingPositionFails ==
    /\ pc = "batting"
    /\ QcutRaises(df)
    /\ Exit("failed")
    /\ UNCHANGED <<file_vars, backend_vars>>

CreateMatchContextFeatures == Stage("context", create_match_context_features(df), "encode")
EncodeCategoricalFeatures == Stage("encode", encode_categorical_features(df), "save")

SaveFeatures ==
    /\ pc = "save"
    /\ features_file' = Some(df)
    /\ pc' = "train"
    /\ UNCHANGED <<corpus, df, loader, model_files, backend_vars>>

\* save_model: the package joblib.dump writes carries the name of the model
\* and the feature columns it was fitted on.
save_model(model_name, feature_columns) ==
    [model_name |-> model_name, feature_columns |-> feature_columns]

\* The models a run fits and keeps, and the one with the least test RMSE.
TrainedModels == {"xgboost", "random_forest"}
BestModel == "xgboost"

\* save_all_models: one file per fitted model.
save_all_models(feature_columns) ==
    [name \in TrainedModels |-> save_model(name, feature_columns)]

\* ModelTrainer.prepare_data, the fits, save_all_models, save_best_model.
TrainAndSaveModels ==
    /\ pc = "train"
    /\ models_dir' = save_all_models(prepare_data(df))
    /\ model_file' = Some(save_model(BestModel, prepare_data(df)))
    /\ Exit("done")
    /\ UNCHANGED <<features_file, backend_vars>>

(* ------------------- the files, between the two programs --------------- *)
\* The deployment has no file at features_path.
FeaturesFileMissing ==
    /\ pc = "done"
    /\ ~backend_up
    /\ features_file # None
    /\ features_file' = None
    /\ UNCHANGED <<batch_vars, model_files, backend_vars>>

\* The deployment has a features file with the header and no record.
FeaturesFileEmptied ==
    /\ pc = "done"
    /\ ~backend_up
    /\ features_file # None
    /\ features_file[1].rows # <<>>
    /\ features_file' = Some([columns |-> features_file[1].columns, rows |-> <<>>])
    /\ UNCHANGED <<batch_vars, model_files, backend_vars>>

\* The deployment's features file names the match column matchId, the name
\* the backend's statistics read; save_features writes it as match_id.
RenameColumn(table, old, new) ==
    [columns |-> [i \in 1..Len(table.columns) |->
                    IF table.columns[i] = old THEN new ELSE table.columns[i]],
     rows |-> [i \in 1..Len(table.rows) |->
                 [c \in (DOMAIN table.rows[i] \ {old}) \cup {new} |->
                    IF c = new THEN table.rows[i][old] ELSE table.rows[i][c]]]]

FeaturesFileDeployed ==
    /\ pc = "done"
    /\ ~backend_up
    /\ features_file # None
    /\ "match_id" \in Range(features_file[1].columns)
    /\ features_file' = Some(RenameColumn(features_file[1], "match_id", "matchId"))
    /\ UNCHANGED <<batch_vars, model_files, backend_vars>>

\* The deployment's models were fitted by a ModelTrainer on a table whose
\* feature columns are the twelve of the online vector: in the order of the
\* vector, or in the order the engineered table has them.
TableOrder(table) == SelectSeq(table.columns, LAMBDA c : c \in Range(VectorColumns))

ModelsDeployed(inOrder) ==
    /\ pc = "done"
    /\ ~backend_up
    /\ features_file # None
    /\ model_file # None
    /\ \E feature_columns \in {IF inOrder THEN VectorColumns
                                 ELSE TableOrder(features_file[1])} :
          /\ model_file[1].feature_columns # feature_columns
          /\ models_dir' = save_all_models(feature_columns)
          /\ model_file' = Some(save_model(BestModel, feature_columns))
    /\ UNCHANGED <<batch_vars, features_file, backend_vars>>

\* The deployment has no models/best_model.pkl.
ModelFileMissing ==
    /\ pc = "done"
    /\ ~backend_up
    /\ model_file # None
    /\ model_file' = None
    /\ UNCHANGED <<batch_vars, features_file, models_dir, backend_vars>>

\* The deployment has best_model.pkl and none of the per-model files.
ModelsDirEmptied ==
    /\ pc = "done"
    /\ ~backend_up
    /\ model_file # None
    /\ models_dir # EmptyDict
    /\ models_dir' = EmptyDict
    /\ UNCHANGED <<batch_vars, features_file, model_file, backend_vars>>

(* ------------------- backend.py: the serving process ------------------- *)
\* load_features: os.path.exists, then read_csv; the columns and the values
\* written by save_features come back as they were written.
load_features(file) == file

\* load_model: os.path.exists, then joblib.load.
load_model(file) == file

\* load_all_models: every .pkl file of models/, best_model.pkl among them,
\* under the model_name its package carries.
load_all_models(dir, best) ==
    IF best = None THEN dir ELSE dir @@ (best[1].model_name :> best[1])

\* MongoDBHandler(): the import may be missing or the constructor of the
\* handler may leave it without a client.
MongoStates == {"absent", "disconnected", "connected"}

\* prepare_statistics: nothing to do without a table; with one, the team and
\* venue aggregations count its matchId column and raise KeyError when the
\* table has none.  (The tables it builds are read by no prediction.)
\* players_stats has one row per player, of which the mean, the count and
\* the maximum of runs_scored and the mean of strike_rate are kept here.
prepare_statistics(table) ==
    IF table = None THEN None
    ELSE Some([p \in {table[1].rows[i]["player"] : i \in 1..Len(table[1].rows)} |->
                 LET player_rows == SelectSeq(table[1].rows, LAMBDA r : r["player"] = p)
                     runs == [i \in 1..Len(player_rows) |-> player_rows[i]["runs_scored"]]
                 IN  [avg_runs |-> Mean(runs),
                      matches |-> Len(player_rows),
                      highest_score |-> MaxVals(runs),
                      avg_strike_rate |->
                          Mean([i \in 1..Len(player_rows) |-> player_rows[i]["strike_rate"]])]])

PrepareStatisticsRaises(table) ==
    table # None /\ "matchId" \notin Range(table[1].columns)

\* CricNexBackend.__init__ in a new process.
StartBackend(seed, db) ==
    /\ pc \in {"done", "failed"}
    /\ ~backend_up
    /\ ~PrepareStatisticsRaises(load_features(features_file))
    /\ startup_error' = None
    /\ backend_up' = TRUE
    /\ hashseed' = seed
    /\ mongo' = db
    /\ model_data' = load_model(model_file)
    /\ all_models' = load_all_models(models_dir, model_file)
    /\ features_df' = load_features(features_file)
    /\ players_stats' = prepare_statistics(load_features(features_file))
    /\ request' = None
    /\ call' = None
    /\ steps' = <<>>
    /\ response' = None
    /\ threads' = [t \in Threads |-> Idle]
    /\ UNCHANGED <<batch_vars, file_vars>>

\* CricNexBackend.__init__ ends with the exception of prepare_statistics:
\* no process serves.
StartBackendFails ==
    /\ pc \in {"done", "failed"}
    /\ ~backend_up
    /\ PrepareStatisticsRaises(load_features(features_file))
    /\ startup_error' = Some("KeyError")
    /\ UNCHANGED <<batch_vars, file_vars, backend_up, features_df, players_stats,
                   model_data, all_models, mongo, hashseed, serial_vars, threads>>

StopBackend ==
    /\ backend_up
    /\ response = None
    /\ backend_up' = FALSE
    /\ hashseed' = 0
    /\ model_data' = None
    /\ all_models' = EmptyDict
    /\ mongo' = "absent"
    /\ features_df' = None
    /\ players_stats' = None
    /\ request' = None
    /\ call' = None
    /\ steps' = <<>>
    /\ response' = None
    /\ threads' = [t \in Threads |-> Idle]
    /\ UNCHANGED <<batch_vars, file_vars, startup_error>>

\* {**input_data, **player_stats}: on a shared key the right operand wins.
MergeDicts(input_data, player_stats) == player_stats @@ input_data

\* What _make_prediction derives before it calls the scaler and the model.
Derivation(input_data) ==
    LET player_stats == _get_player_recent_stats(features_df, input_data["player"])
        prediction_input == MergeDicts(input_data, player_stats)
    IN  [input_data |-> input_data,
         player_stats |-> player_stats,
         prediction_input |-> prediction_input,
         features |-> _create_feature_vector(features_df, hashseed, prediction_input)]

Error(status, message) == Some([status |-> status, body |-> [error |-> message]])

\* scaler.transform([features]) and model.predict raise ValueError when the
\* vector has not the number of features the scaler and the model were
\* fitted on.
FitsModel(features, model) == Len(features) = Len(model.feature_columns)

\* The first line of _make_prediction that reads a key the merged input has
\* not: player, team, opponent, venue, in that order.
IdentityKeys == <<"player", "team", "opponent", "venue">>

MissingKeys(prediction_input) ==
    {k \in 1..Len(IdentityKeys) : IdentityKeys[k] \notin DOMAIN prediction_input}

FirstMissing(prediction_input) ==
    IdentityKeys[CHOOSE k \in MissingKeys(prediction_input) :
                    \A m \in MissingKeys(prediction_input) : k <= m]

\* str(KeyError(key))
KeyErrorText == [player |-> "'player'", team |-> "'team'",
                 opponent |-> "'opponent'", venue |-> "'venue'"]

\* A JSON value that is no object is written [json |-> its type]; it has
\* no key and no get.
BareString == [json |-> "string"]
IsObject(item) == "json" \notin DOMAIN item

\* What a handler did for one request: the statistics it looked up, the
\* vector it built, whether it called the scaler and the model with success,
\* the exception that ended it, and the dict _make_prediction returned.
Step(item, player_stats, features, model_called, error) ==
    [item |-> item, player_stats |-> player_stats, features |-> features,
     model_called |-> model_called, error |-> error, prediction |-> None]

\* data.get('model_name'): "" stands for None, both are false.
RequestedModel(data) == Get(data, "model_name", "")

\* A selection that knows the default model only (a variant, to show what
\* C29 detects).
SelectModel_DefaultOnly(model_name) == model_data

\* The model _make_prediction selects: the requested one when it is loaded,
\* else the default one; None when there is none (it raises).
SelectModel(model_name) ==
    IF model_name # "" /\ model_name \in DOMAIN all_models
    THEN Some(all_models[model_name])
    ELSE model_data

\* The two lines the handlers share, in a request that passed no check:
\* _get_player_recent_stats(item['player']), then _make_prediction, which
\* selects the model, merges, reads the four keys, builds the vector and
\* calls the scaler and the model; an exception ends the item where it is.
Serve(item, model_name) ==
    IF ~IsObject(item)
    THEN Step(item, None, None, FALSE, Some("TypeError"))
    ELSE IF "player" \notin DOMAIN item
    THEN Step(item, None, None, FALSE, Some(KeyErrorText["player"]))
    ELSE LET player_stats == _get_player_recent_stats(features_df, item["player"])
             prediction_input == MergeDicts(item, player_stats)
         IN  IF SelectModel(model_name) = None
             THEN Step(item, Some(player_stats), None, FALSE,
                       Some("No model available for prediction"))
             ELSE IF MissingKeys(prediction_input) # {}
             THEN Step(item, Some(player_stats), None, FALSE,
                       Some(KeyErrorText[FirstMissing(prediction_input)]))
             ELSE LET features == _create_feature_vector(features_df, hashseed,
                                                         prediction_input)
                  IN  IF ~FitsModel(features, SelectModel(model_name)[1])
                      THEN Step(item, Some(player_stats), Some(features), FALSE,
                                Some("ValueError"))
                      ELSE Step(item, Some(player_stats), Some(features), TRUE, None)

\* What the model returns for a vector and the variation np.random.uniform
\* draws: the model is any regressor, its output any float.
Draws ==
    {<<Num(-5), Num(-2)>>, <<Num(20), Num(0)>>, <<Num(45), Num(2)>>,
     <<Num(60), Num(-2)>>, <<Num(250), Num(2)>>, <<NaN, Num(0)>>}

\* The draws followed in the items of a batch.
BatchDraws == {<<Num(-5), Num(-2)>>, <<Num(250), Num(2)>>}

MaxPredictedRuns == 200
HighScore == 50
GoodScore == 30
MinStrikeRate == 80
MaxStrikeRate == 200

\* np.clip(x, lo, hi): NaN stays NaN.
NpClip(x, lo, hi) ==
    IF IsNaN(x) THEN NaN ELSE IF RLess(x, lo) THEN lo ELSE IF RLess(hi, x) THEN hi ELSE x

\* max(a, b) and min(a, b) of Python: b only when b > a, b < a.
PyMax(a, b) == IF RLess(a, b) THEN b ELSE a
PyMin(a, b) == IF RLess(b, a) THEN b ELSE a

\* Predicted runs with no clip of the model output (a variant, to show what
\* C30 detects).
PredictedRuns_Unclipped(out, variation) == PyMax(Num(0), RAdd(out, variation))

\* predicted_runs: the output clipped, the variation added, floored at 0.
PredictedRuns(out, variation) ==
    PyMax(Num(0), RAdd(NpClip(out, Num(0), Num(MaxPredictedRuns)), variation))

_estimate_strike_rate(predicted_runs, input_data) ==
    LET base_sr == Get(input_data, "strike_rate_last_5", Num(DefaultStrikeRate))
        estimated_sr ==
            IF RLess(Num(HighScore), predicted_runs) THEN RMul(base_sr, Rat(11, 10))
            ELSE IF RLess(Num(GoodScore), predicted_runs) THEN base_sr
            ELSE RMul(base_sr, Rat(9, 10))
    IN  PyMin(Num(MaxStrikeRate), PyMax(Num(MinStrikeRate), estimated_sr))

_get_confidence_score(confidence) ==
    IF confidence = "high" THEN Rat(85, 100)
    ELSE IF confidence = "medium" THEN Rat(65, 100)
    ELSE IF confidence = "low" THEN Rat(45, 100)
    ELSE Rat(1, 2)

\* The dict _make_prediction returns.
Prediction(d, model, draw) ==
    LET predicted_runs == PredictedRuns(draw[1], draw[2])
        confidence == _calculate_confidence(d.prediction_input)
    IN  [player |-> d.prediction_input["player"],
         team |-> d.prediction_input["team"],
         opponent |-> d.prediction_input["opponent"],
         venue |-> d.prediction_input["venue"],
         predicted_runs |-> predicted_runs,
         predicted_strike_rate |-> _estimate_strike_rate(predicted_runs, d.prediction_input),
         predicted_wickets |-> Num(0),
         confidence |-> confidence,
         confidence_score |-> _get_confidence_score(confidence),
         model_used |-> model.model_name,
         player_stats |-> d.player_stats]

\* A step that called the model, with what _make_prediction returned.
Predicted(step, model_name, draw) ==
    [step EXCEPT !.prediction =
        Some(Prediction(Derivation(step.item), SelectModel(model_name)[1], draw))]

\* save_prediction: the id of the inserted document, or None when the
\* insert failed.
SaveOutcomes == {None, Some("id")}

\* An end of predict in which a failed save is answered with an error (a
\* variant, to show what C27 detects).
predict_response_SaveOrFail(prediction, db, pred_id) ==
    IF db = "connected" /\ pred_id = None
    THEN Some([status |-> 500, body |-> [error |-> "save_prediction"]])
    ELSE Some([status |-> 200,
               body |-> IF db = "connected"
                        THEN prediction @@ [mongo_id |-> pred_id]
                        ELSE prediction])

\* The end of predict for a prediction that was made: with a connected
\* handler the prediction is saved and carries mongo_id; the response is 200.
predict_response(prediction, db, pred_id) ==
    Some([status |-> 200,
          body |-> IF db = "connected"
                   THEN prediction @@ [mongo_id |-> pred_id]
                   ELSE prediction])

\* POST /api/predict, one request at a time.
Predict(data) ==
    /\ backend_up
    /\ response = None
    /\ request' = Some([endpoint |-> "/api/predict", body |-> data])
    /\ IF ~(RequiredFields \subseteq DOMAIN data)
       THEN /\ response' = Error(400, "Missing required fields")
            /\ call' = None
            /\ steps' = <<Step(data, None, None, FALSE, Some("Missing required fields"))>>
       ELSE \E step \in {Serve(data, RequestedModel(data))} :
            /\ call' = IF SelectModel(RequestedModel(data)) = None THEN None
                       ELSE Some(Derivation(data))
            /\ IF step.error # None
               THEN /\ steps' = <<step>>
                    /\ response' = Error(500, step.error[1])
               ELSE \E draw \in Draws, pred_id \in SaveOutcomes :
                    \E done \in {Predicted(step, RequestedModel(data), draw)} :
                        /\ steps' = <<done>>
                        /\ response' = predict_response(done.prediction[1], mongo, pred_id)
    /\ UNCHANGED <<batch_vars, file_vars, loaded_vars, threads>>

\* 'Unknown', the player named in the result of an item that has none.
Unknown == <<85, 110, 107, 110, 111, 119, 110>>

\* The entry of the results list for one item: the prediction, or the player
\* and the text of the exception.
BatchResult(step) ==
    IF step.error # None
    THEN [player |-> Get(step.item, "player", Unknown), error |-> step.error[1]]
    ELSE step.prediction[1]

\* The results list: one entry per item, in the order of the items.
BatchResults(served) == [i \in 1..Len(served) |-> BatchResult(served[i])]

\* The items at which the except clause of the loop raises itself: it calls
\* pred_input.get, which only an object has.
Unhandled(predictions_list) ==
    {i \in 1..Len(predictions_list) : ~IsObject(predictions_list[i])}

\* POST /api/predict/batch: the items are served one after the other with
\* the default model, none is checked for its fields; the response is 200
\* with one result per item, or 500 when the loop ended with an exception.
PredictBatch(predictions_list) ==
    /\ backend_up
    /\ response = None
    /\ request' = Some([endpoint |-> "/api/predict/batch", body |-> predictions_list])
    /\ \E draws \in [1..Len(predictions_list) -> BatchDraws] :
       \E served \in {[i \in 1..Len(predictions_list) |->
                         LET step == Serve(predictions_list[i], "")
                         IN  IF step.error # None THEN step
                             ELSE Predicted(step, "", draws[i])]} :
          IF Unhandled(predictions_list) = {}
          THEN /\ steps' = served
               /\ response' = Some([status |-> 200,
                                    body |-> [predictions |-> BatchResults(served)]])
          ELSE \E last \in Unhandled(predictions_list) :
               /\ \A i \in Unhandled(predictions_list) : last <= i
               /\ steps' = SubSeq(served, 1, last)
               /\ response' = Error(500, "AttributeError")
    /\ call' = None
    /\ UNCHANGED <<batch_vars, file_vars, loaded_vars, threads>>

\* The response has gone to the caller; the backend waits for a request.
Reply ==
    /\ backend_up
    /\ response # None
    /\ response' = None
    /\ request' = None
    /\ call' = None
    /\ steps' = <<>>
    /\ UNCHANGED <<batch_vars, file_vars, loaded_vars, threads>>

Next ==
    \/ CreateRollingFeatures
    \/ CreateVenueFeatures
    \/ CreateOpponentFeatures
    \/ CreateHomeAwayFeature
    \/ CreateBattingPositionFeature
    \/ BattingPositionFails
    \/ CreateMatchContextFeatures
    \/ EncodeCategoricalFeatures
    \/ SaveFeatures
    \/ TrainAndSaveModels
    \/ FeaturesFileMissing
    \/ FeaturesFileEmptied
    \/ FeaturesFileDeployed
    \/ \E seed \in HashSeeds : StartBackend(seed, "absent")
    \/ StartBackendFails
    \/ StopBackend
    \/ \E data \in Requests : Predict(data)
    \/ \E predictions_list \in Batches : PredictBatch(predictions_list)
    \/ Reply

Spec == Init /\ [][Next]_vars

(* ------------- the serving process with models that fit --------------- *)
\* Tables that pass the pipeline: eleven players with one innings each,
\* twelve with a second innings of player "a", and a season in which "a"
\* has three innings.
ServeCorpora ==
    {Squad(11, 0, 3, FALSE), Squad(12, 1, 3, FALSE), Season(1, 45, FALSE)}

ModelNames == {"random_forest", "arima"}

\* Requests for a player with records ("a") and for one without ("z"), with
\* and without the two recency fields and the name of a model.
ServeRequests ==
    {r \in ValidRequests :
        /\ r["player"] = PlayerA
        /\ r["opponent"] = TeamX
        /\ r["venue"] = NameZ
        /\ DOMAIN r \subseteq RequiredFields \cup {"runs_last_5_avg", "strike_rate_last_5"}}

Renamed(r, player) == [r EXCEPT !["player"] = player]

Named(r, model_name) == r @@ [model_name |-> model_name]

ServedRequests ==
    LET plain == ServeRequests \cup {Renamed(r, NameZ) : r \in ServeRequests}
    IN  plain \cup {Named(r, m) : r \in plain, m \in ModelNames} \cup InvalidRequests

\* Bodies for /api/predict/batch: a player with records, one without, an
\* item that lacks a field and an item that is a string.
ServedItems ==
    {r \in BatchItems : DOMAIN r = RequiredFields /\ r["player"] = PlayerC}
        \cup {Renamed(r, PlayerA) : r \in {q \in BatchItems : DOMAIN q = RequiredFields /\ q["player"] = PlayerC}}
        \cup {r \in InvalidRequests : "opponent" \notin DOMAIN r}
        \cup {BareString}

ServedBatches == Lists(ServedItems, MaxBatch)

ServeInit ==
    /\ corpus \in ServeCorpora
    /\ df = [columns |-> BaseColumns, rows |-> corpus]
    /\ pc = "rolling"
    /\ loader = NoLoader
    /\ features_file = None
    /\ model_file = None
    /\ models_dir = EmptyDict
    /\ backend_up = FALSE
    /\ features_df = None
    /\ players_stats = None
    /\ model_data = None
    /\ all_models = EmptyDict
    /\ mongo = "absent"
    /\ hashseed = 0
    /\ startup_error = None
    /\ request = None
    /\ call = None
    /\ steps = <<>>
    /\ response = None
    /\ threads = [t \in Threads |-> Idle]

ServeNext ==
    \/ CreateRollingFeatures
    \/ CreateVenueFeatures
    \/ CreateOpponentFeatures
    \/ CreateHomeAwayFeature
    \/ CreateBattingPositionFeature
    \/ CreateMatchContextFeatures
    \/ EncodeCategoricalFeatures
    \/ SaveFeatures
    \/ TrainAndSaveModels
    \/ FeaturesFileMissing
    \/ FeaturesFileDeployed
    \/ \E inOrder \in BOOLEAN : ModelsDeployed(inOrder)
    \/ ModelFileMissing
    \/ ModelsDirEmptied
    \/ \E db \in MongoStates : StartBackend(1, db)
    \/ StopBackend
    \/ \E data \in ServedRequests : Predict(data)
    \/ \E predictions_list \in ServedBatches : PredictBatch(predictions_list)
    \/ Reply

ServeSpec == ServeInit /\ [][ServeNext]_vars

(* ------------- the batch pipeline alone, on longer tables -------------- *)
BatchInit ==
    /\ corpus \in BatchCorpora
    /\ df = [columns |-> BaseColumns, rows |-> corpus]
    /\ pc = "rolling"
    /\ loader = NoLoader
    /\ features_file = None
    /\ model_file = None
    /\ models_dir = EmptyDict
    /\ backend_up = FALSE
    /\ features_df = None
    /\ players_stats = None
    /\ model_data = None
    /\ all_models = EmptyDict
    /\ mongo = "absent"
    /\ hashseed = 0
    /\ startup_error = None
    /\ request = None
    /\ call = None
    /\ steps = <<>>
    /\ response = None
    /\ threads = [t \in Threads |-> Idle]

BatchNext ==
    \/ CreateRollingFeatures
    \/ CreateVenueFeatures
    \/ CreateOpponentFeatures
    \/ CreateHomeAwayFeature
    \/ CreateBattingPositionFeature
    \/ BattingPositionFails
    \/ CreateMatchContextFeatures
    \/ EncodeCategoricalFeatures
    \/ SaveFeatures
    \/ TrainAndSaveModels

BatchSpec == BatchInit /\ [][BatchNext]_vars

(* -------------------- data_loader.py: DataLoader ----------------------- *)
\* pd.to_numeric(x, errors='coerce') of a season as the file has it: the
\* number a string of digits writes, NaN (None here) for any other string.
RECURSIVE DigitsValue(_)
DigitsValue(s) ==
    IF s = <<>> THEN 0 ELSE DigitsValue(SubSeq(s, 1, Len(s) - 1)) * 10 + (s[Len(s)] - 48)

ToNumeric(s) ==
    IF s # <<>> /\ \A i \in 1..Len(s) : s[i] \in 48..57 THEN Some(DigitsValue(s)) ELSE None

\* preprocess_deliveries: a ball counts for the batsman when it is neither
\* a wide nor a no-ball.
preprocess_deliveries(deliveries) ==
    [i \in 1..Len(deliveries) |->
        deliveries[i] @@ [is_valid_ball |->
                             deliveries[i]["wides"] = 0 /\ deliveries[i]["noballs"] = 0]]

\* preprocess_matches: the season becomes a number.
preprocess_matches(matches) ==
    [i \in 1..Len(matches) |-> [matches[i] EXCEPT !["season"] = ToNumeric(@)]]

\* deliveries.merge(matches[match_cols], left_on='match_id', right_on='id',
\* how='left'): a delivery of a match the matches table has not keeps its
\* row, with NaN (None here) for the columns of the match.
RECURSIVE merge_data(_, _)
merge_data(deliveries, matches) ==
    IF deliveries = <<>> THEN <<>>
    ELSE LET d == deliveries[1]
             found == SelectSeq(matches, LAMBDA r : r["id"] = d["match_id"])
         IN  (IF found = <<>>
              THEN <<d @@ [date |-> None, season |-> None, venue |-> None]>>
              ELSE [k \in 1..Len(found) |->
                       d @@ [date |-> Some(found[k]["date"]),
                             season |-> found[k]["season"],
                             venue |-> Some(found[k]["venue"])]])
             \o merge_data(Tail(deliveries), matches)

GroupKeys ==
    {"match_id", "batsman", "batting_team", "bowling_team", "venue", "date", "season"}

KeyOf(r) == [k \in GroupKeys |-> r[k]]

\* groupby leaves out the rows that have NaN in a key.
HasKeys(r) == r["venue"] # None /\ r["date"] # None /\ r["season"] # None

RECURSIVE IntSum(_)
IntSum(s) == IF s = <<>> THEN 0 ELSE s[1] + IntSum(Tail(s))

\* The groups in the order of their keys (the match, then the batsman; the
\* other keys follow from these two in the tables here).
KeyLess(a, b) ==
    \/ a["match_id"] < b["match_id"]
    \/ a["match_id"] = b["match_id"] /\ StrLess(a["batsman"], b["batsman"])

RECURSIVE GroupsInOrder(_)
GroupsInOrder(G) ==
    IF G = {} THEN <<>>
    ELSE LET g == CHOOSE x \in G : \A y \in G : ~KeyLess(y, x)
         IN  <<g>> \o GroupsInOrder(G \ {g})

\* aggregate_match_stats on the merged table: one row per group with the
\* sums of batsman_runs, of the valid balls and of extra_runs; the rows with
\* no ball faced are left out (their strike rate is never read), the others
\* have strike_rate = runs_scored / balls_faced * 100; sorted by player and
\* date.
aggregate_match_stats(merged_df) ==
    LET kept == SelectSeq(merged_df, HasKeys)
        groups == GroupsInOrder({KeyOf(kept[i]) : i \in 1..Len(kept)})
        Of(g) == SelectSeq(kept, LAMBDA r : KeyOf(r) = g)
        Runs(g) == IntSum([i \in 1..Len(Of(g)) |-> Of(g)[i]["batsman_runs"]])
        Balls(g) == Len(SelectSeq(Of(g), LAMBDA r : r["is_valid_ball"]))
        Extras(g) == IntSum([i \in 1..Len(Of(g)) |-> Of(g)[i]["extra_runs"]])
        player_match_stats ==
            [i \in 1..Len(groups) |->
                [match_id |-> groups[i]["match_id"],
                 player |-> groups[i]["batsman"],
                 team |-> groups[i]["batting_team"],
                 opponent |-> groups[i]["bowling_team"],
                 venue |-> groups[i]["venue"][1],
                 date |-> groups[i]["date"][1],
                 season |-> groups[i]["season"][1],
                 runs_scored |-> Num(Runs(groups[i])),
                 balls_faced |-> Num(Balls(groups[i])),
                 extra_runs |-> Num(Extras(groups[i])),
                 strike_rate |-> IF Balls(groups[i]) = 0 THEN Num(0)
                                 ELSE Rat(Runs(groups[i]) * 100, Balls(groups[i]))]]
    IN  SortByPlayerDate(SelectSeq(player_match_stats,
                                   LAMBDA r : RLess(Num(0), r["balls_faced"])))

\* loader.load_data(): the two files are read.
LoadData ==
    /\ pc = "load"
    /\ loader' = Some([loader[1] EXCEPT !.deliveries_df = Some(loader[1].deliveries_file),
                                        !.matches_df = Some(loader[1].matches_file)])
    /\ pc' = "aggregate"
    /\ UNCHANGED <<corpus, df, file_vars, backend_vars>>

\* loader.aggregate_match_stats(), which merges first, and
\* FeatureEngineer(player_match_data).
AggregateMatchStats ==
    /\ pc = "aggregate"
    /\ \E merged_df \in {merge_data(preprocess_deliveries(loader[1].deliveries_df[1]),
                                    preprocess_matches(loader[1].matches_df[1]))} :
       \E player_match_data \in {aggregate_match_stats(merged_df)} :
          /\ loader' = Some([loader[1] EXCEPT !.merged_df = Some(merged_df)])
          /\ corpus' = player_match_data
          /\ df' = [columns |-> BaseColumns, rows |-> player_match_data]
    /\ pc' = "rolling"
    /\ UNCHANGED <<file_vars, backend_vars>>

\* The deliveries file: up to MaxDeliveries balls of two matches to two
\* batsmen; a dot ball, a four, a wide, and a no-ball hit for four.
MaxDeliveries == 2

BallKinds ==
    [dot |-> [batsman_runs |-> 0, extra_runs |-> 0, wides |-> 0, noballs |-> 0],
     four |-> [batsman_runs |-> 4, extra_runs |-> 0, wides |-> 0, noballs |-> 0],
     wide |-> [batsman_runs |-> 0, extra_runs |-> 1, wides |-> 1, noballs |-> 0],
     noball |-> [batsman_runs |-> 4, extra_runs |-> 1, wides |-> 0, noballs |-> 1]]

Ball(m, p, kind) ==
    [match_id |-> m, batsman |-> p, batting_team |-> PlayerTeam(p),
     bowling_team |-> OtherTeam(PlayerTeam(p))] @@ BallKinds[kind]

Balls == {Ball(m, p, kind) : m \in {1, 2}, p \in {PlayerA, PlayerB}, kind \in DOMAIN BallKinds}

DeliveryFiles == UNION {[1..n -> Balls] : n \in 1..MaxDeliveries}

\* The matches file: both matches with the season as a year; the second
\* match with a season written over two years; the second match not there.
SeasonYear == <<50, 48, 50, 52>>
SeasonTwoYears == <<50, 48, 48, 55, 47, 48, 56>>

MatchRow(m, season) == [id |-> m, date |-> m, season |-> season, venue |-> MatchVenue(m)]

MatchFiles ==
    {<<MatchRow(1, SeasonYear), MatchRow(2, SeasonYear)>>,
     <<MatchRow(1, SeasonYear), MatchRow(2, SeasonTwoYears)>>,
     <<MatchRow(1, SeasonYear)>>}

LoaderInit ==
    /\ pc = "load"
    /\ corpus = <<>>
    /\ df = NoTable
    /\ \E deliveries \in DeliveryFiles, matches \in MatchFiles :
          loader = Some([deliveries_file |-> deliveries, matches_file |-> matches,
                         deliveries_df |-> None, matches_df |-> None, merged_df |-> None])
    /\ features_file = None
    /\ model_file = None
    /\ models_dir = EmptyDict
    /\ backend_up = FALSE
    /\ features_df = None
    /\ players_stats = None
    /\ model_data = None
    /\ all_models = EmptyDict
    /\ mongo = "absent"
    /\ hashseed = 0
    /\ startup_error = None
    /\ request = None
    /\ call = None
    /\ steps = <<>>
    /\ response = None
    /\ threads = [t \in Threads |-> Idle]

LoaderNext ==
    \/ LoadData
    \/ AggregateMatchStats

LoaderSpec == LoaderInit /\ [][LoaderNext]_vars

(* ------------- /api/predict under a threaded server -------------------- *)
\* app.run serves each request in a thread of its own; the threads share
\* the backend object.  A handler is followed through the lines at which it
\* reads the shared tables: the lookup of the player's statistics, then the
\* assembly of the vector.

\* self.features_df after the statement player_data = self.features_df[mask]
\* had the attribute bound to the selection (a variant, to show what C22
\* detects).
SnapshotAfterLookup_Rebound(table, player_name) ==
    IF table = None THEN None
    ELSE Some([table[1] EXCEPT
                 !.rows = Pick(table[1].rows, Matching(table[1], "player", player_name))])

\* self.features_df after a lookup: the selection by a mask is a new table
\* bound to a local name, the attribute keeps the table it had.
SnapshotAfterLookup(table, player_name) == table

At(t, stage) == threads[t].stage = stage

\* predict, up to the check of the required fields (backend.py:209-220).
Accept(t, data) ==
    /\ backend_up
    /\ At(t, "idle")
    /\ threads' = [threads EXCEPT ![t] =
          IF ~(RequiredFields \subseteq DOMAIN data)
          THEN [Idle EXCEPT !.stage = "done", !.data = data,
                            !.outcome = Error(400, "Missing required fields")]
          ELSE [Idle EXCEPT !.stage = "lookup", !.data = data]]
    /\ UNCHANGED <<batch_vars, file_vars, loaded_vars, serial_vars>>

\* player_data = self._get_player_recent_stats(data['player'])
LookUpStats(t) ==
    /\ backend_up
    /\ At(t, "lookup")
    /\ threads' = [threads EXCEPT ![t].stage = "assemble",
                                  ![t].player_stats =
                                      Some(_get_player_recent_stats(features_df,
                                                                    threads[t].data["player"]))]
    /\ features_df' = SnapshotAfterLookup(features_df, threads[t].data["player"])
    /\ UNCHANGED <<batch_vars, file_vars, backend_up, players_stats, model_data,
                   all_models, mongo, hashseed, startup_error, serial_vars>>

\* _make_prediction up to the vector: the model is selected, the request
\* and the statistics are merged, the vector is built from the merged dict
\* and the table.
AssembleVector(t) ==
    /\ backend_up
    /\ At(t, "assemble")
    /\ threads' = [threads EXCEPT ![t] =
          IF SelectModel(RequestedModel(threads[t].data)) = None
          THEN [@ EXCEPT !.stage = "done",
                         !.outcome = Error(500, "No model available for prediction")]
          ELSE [@ EXCEPT !.stage = "predict",
                         !.features =
                             Some(_create_feature_vector(
                                     features_df, hashseed,
                                     MergeDicts(threads[t].data, threads[t].player_stats[1])))]]
    /\ UNCHANGED <<batch_vars, file_vars, loaded_vars, serial_vars>>

\* The rest of _make_prediction and of predict: the scaler and the model
\* are called, the prediction is saved and returned.
FinishPrediction(t) ==
    /\ backend_up
    /\ At(t, "predict")
    /\ \E model \in {SelectModel(RequestedModel(threads[t].data))[1]} :
          IF ~FitsModel(threads[t].features[1], model)
          THEN threads' = [threads EXCEPT ![t].stage = "done",
                                          ![t].outcome = Error(500, "ValueError")]
          ELSE \E draw \in BatchDraws, pred_id \in SaveOutcomes :
               \E d \in {[prediction_input |-> MergeDicts(threads[t].data,
                                                          threads[t].player_stats[1]),
                          player_stats |-> threads[t].player_stats[1]]} :
                  threads' = [threads EXCEPT
                                 ![t].stage = "done",
                                 ![t].outcome = predict_response(Prediction(d, model, draw),
                                                                 mongo, pred_id)]
    /\ UNCHANGED <<batch_vars, file_vars, loaded_vars, serial_vars>>

\* The response has gone to the caller; the thread ends.
Return(t) ==
    /\ backend_up
    /\ At(t, "done")
    /\ threads' = [threads EXCEPT ![t] = Idle]
    /\ UNCHANGED <<batch_vars, file_vars, loaded_vars, serial_vars>>

\* A table that passes the pipeline; requests for two players with records
\* and for one without, and a request that lacks a field.
ConcurrentCorpora == {Squad(12, 1, 3, FALSE)}

ConcurrentRequests ==
    {r \in ServedItems : IsObject(r)}
        \cup {Renamed(r, NameZ) : r \in {q \in ServedItems : DOMAIN q = RequiredFields}}

ConcurrentInit ==
    /\ corpus \in ConcurrentCorpora
    /\ df = [columns |-> BaseColumns, rows |-> corpus]
    /\ pc = "rolling"
    /\ loader = NoLoader
    /\ features_file = None
    /\ model_file = None
    /\ models_dir = EmptyDict
    /\ backend_up = FALSE
    /\ features_df = None
    /\ players_stats = None
    /\ model_data = None
    /\ all_models = EmptyDict
    /\ mongo = "absent"
    /\ hashseed = 0
    /\ startup_error = None
    /\ request = None
    /\ call = None
    /\ steps = <<>>
    /\ response = None
    /\ threads = [t \in Threads |-> Idle]

ConcurrentNext ==
    \/ CreateRollingFeatures
    \/ CreateVenueFeatures
    \/ CreateOpponentFeatures
    \/ CreateHomeAwayFeature
    \/ CreateBattingPositionFeature
    \/ CreateMatchContextFeatures
    \/ EncodeCategoricalFeatures
    \/ SaveFeatures
    \/ TrainAndSaveModels
    \/ FeaturesFileDeployed
    \/ ModelsDeployed(TRUE)
    \/ StartBackend(1, "absent")
    \/ \E t \in Threads, data \in ConcurrentRequests : Accept(t, data)
    \/ \E t \in Threads : LookUpStats(t)
    \/ \E t \in Threads : AssembleVector(t)
    \/ \E t \in Threads : FinishPrediction(t)
    \/ \E t \in Threads : Return(t)

ConcurrentSpec == ConcurrentInit /\ [][ConcurrentNext]_vars

(* ------------------------------ claims -------------------------------- *)
FeatureAt(features, name) ==
    features[CHOOSE i \in 1..Len(VectorColumns) : VectorColumns[i] = name]

\* The snapshot is loaded and has records.
SnapshotNonEmpty == features_df # None /\ features_df[1].rows # <<>>

\* The entity whose records an optional field is computed from, and the
\* metric it averages.
EntityOf(f) ==
    CASE f \in {"runs_last_5_avg", "strike_rate_last_5"} -> "player"
      [] f \in {"venue_avg_runs", "venue_avg_strike_rate"} -> "venue"
      [] f \in {"opponent_avg_runs", "opponent_avg_strike_rate"} -> "opponent"

MetricOf(f) ==
    IF f \in {"runs_last_5_avg", "venue_avg_runs", "opponent_avg_runs"}
    THEN "runs_scored" ELSE "strike_rate"

\* Tier 2, else tier 3, of the fallback hierarchy for field f of a request:
\* the mean over the records matching the entity (the five most recent ones
\* for a recency field), the corpus-wide mean when no record matches.
LiveValue(f, input) ==
    LET matches == MatchingRows(features_df, EntityOf(f), input[EntityOf(f)])
        used == IF EntityOf(f) = "player" THEN Head5(SortByDateDesc(matches)) ELSE matches
    IN  IF matches # <<>>
        THEN Mean([i \in 1..Len(used) |-> used[i][MetricOf(f)]])
        ELSE Mean(Col(features_df[1], MetricOf(f)))

LiteralDefault(f) ==
    CASE f \in {"runs_last_5_avg", "opponent_avg_runs"} -> Num(DefaultRuns)
      [] f = "venue_avg_runs" -> Num(DefaultVenueRuns)
      [] OTHER -> Num(DefaultStrikeRate)

\* C1: on the /api/predict path every optional numeric field the caller
\* supplied is in the feature vector with exactly the caller's value.
C1_CallerValuesReachVector ==
    call # None =>
        \A f \in OptionalFields \cap DOMAIN call[1].input_data :
            FeatureAt(call[1].features, f) = call[1].input_data[f]

\* C2: _create_feature_vector returns every optional field present in the
\* input_data it is given unchanged, whatever else is present or absent.
C2_VectorKeepsSuppliedFields ==
    call # None =>
        \A f \in OptionalFields \cap DOMAIN call[1].prediction_input :
            FeatureAt(call[1].features, f) = call[1].prediction_input[f]

\* C3: with a loaded, non-empty snapshot, a field absent from the input of
\* _create_feature_vector is the live mean over the matching records, or the
\* corpus-wide mean when none matches; never a literal default.
C3_AbsentFieldIsComputedLive ==
    (call # None /\ SnapshotNonEmpty) =>
        \A f \in OptionalFields \ DOMAIN call[1].prediction_input :
            FeatureAt(call[1].features, f) = LiveValue(f, call[1].prediction_input)

\* C4: venue_avg_runs of an online request follows the fallback order: the
\* caller's override, else the mean of runs_scored over the records of the
\* venue, else the mean of runs_scored over the whole snapshot.
C4_VenueAvgRunsFallbackOrder ==
    (call # None /\ SnapshotNonEmpty) =>
        FeatureAt(call[1].features, "venue_avg_runs") =
            IF "venue_avg_runs" \in DOMAIN call[1].input_data
            THEN call[1].input_data["venue_avg_runs"]
            ELSE LiveValue("venue_avg_runs", call[1].input_data)

\* The case of C5: a request without overrides for a player no record
\* matches, against a non-empty snapshot.
UnknownPlayerNoOverrides ==
    /\ call # None
    /\ SnapshotNonEmpty
    /\ OptionalFields \cap DOMAIN call[1].input_data = {}
    /\ Matching(features_df[1], "player", call[1].input_data["player"]) = {}

\* C5: a request without overrides for a player with no matching record,
\* against a non-empty snapshot, gets the corpus-wide means of runs_scored and
\* strike_rate as runs_last_5_avg and strike_rate_last_5.
C5_UnknownPlayerGetsCorpusMean ==
    UnknownPlayerNoOverrides =>
        /\ FeatureAt(call[1].features, "runs_last_5_avg") = Mean(Col(features_df[1], "runs_scored"))
        /\ FeatureAt(call[1].features, "strike_rate_last_5") = Mean(Col(features_df[1], "strike_rate"))
        /\ ~IsNaN(FeatureAt(call[1].features, "runs_last_5_avg"))
        /\ ~IsNaN(FeatureAt(call[1].features, "strike_rate_last_5"))

C5_Witness ==
    /\ UnknownPlayerNoOverrides
    /\ Len(features_df[1].rows) = 2
    /\ FeatureAt(call[1].features, "runs_last_5_avg") = Num(25)

\* C6: with the snapshot unavailable or empty, a request without overrides
\* is derived with every optional field at its literal default.
C6_NoSnapshotGivesLiteralDefaults ==
    (/\ call # None
     /\ ~SnapshotNonEmpty
     /\ OptionalFields \cap DOMAIN call[1].input_data = {}) =>
        \A f \in OptionalFields : FeatureAt(call[1].features, f) = LiteralDefault(f)

\* C7: the feature columns handed to model fitting are the columns of the
\* online vector, same length, same order.
C7_BatchColumnsAreVectorColumns ==
    model_file # None => model_file[1].feature_columns = VectorColumns

CategoryColumn ==
    [player |-> "player_encoded", team |-> "team_encoded",
     opponent |-> "opponent_encoded", venue |-> "venue_encoded"]

\* C8: for a player, team, opponent or venue value that occurs in the
\* corpus, the id in the online vector is the id the batch encoder gave it.
C8_OnlineIdIsEncoderId ==
    (call # None /\ SnapshotNonEmpty) =>
        \A c \in RequiredFields : \A i \in 1..Len(features_df[1].rows) :
            features_df[1].rows[i][c] = call[1].input_data[c] =>
                FeatureAt(call[1].features, CategoryColumn[c])
                    = features_df[1].rows[i][CategoryColumn[c]]

\* C9: a value that does not occur in the corpus never gets the id of a
\* value of that category that does.
C9_UnseenValueGetsNoKnownId ==
    (call # None /\ SnapshotNonEmpty) =>
        \A c \in RequiredFields :
            call[1].input_data[c] \notin Range(Col(features_df[1], c)) =>
                FeatureAt(call[1].features, CategoryColumn[c])
                    \notin Range(Col(features_df[1], CategoryColumn[c]))

\* The run has encoded the categories of the table it was given.
EncodedNow == pc \in {"save", "train"}

\* C10: per category the encoder's ids are 0..n-1 over the n distinct values
\* of the table, in the sorted order of the values; so the value-to-id map
\* depends on the set of values alone, not on the row order, and distinct
\* values have distinct ids.
C10_EncoderIdsFollowSortedValues ==
    EncodedNow =>
        \A c \in RequiredFields :
            /\ Range(Col(df, CategoryColumn[c]))
                 = 0..(Cardinality(Range([i \in 1..Len(corpus) |-> corpus[i][c]])) - 1)
            /\ \A i, j \in 1..Len(df.rows) :
                 StrLess(df.rows[i][c], df.rows[j][c])
                    <=> df.rows[i][CategoryColumn[c]] < df.rows[j][CategoryColumn[c]]

C10_Witness ==
    /\ EncodedNow
    /\ Len(df.rows) = 2
    /\ df.rows[1]["venue_encoded"] = 1
    /\ df.rows[2]["venue_encoded"] = 0
    /\ corpus[1]["player"] = PlayerB

(* ----------------- claims on the batch feature pipeline ---------------- *)
HasColumn(c) == c \in Range(df.columns)

\* Where a row of df stood in the table the FeatureEngineer was given.
CorpusPos(r) ==
    CHOOSE k \in 1..Len(corpus) :
        corpus[k]["match_id"] = r["match_id"] /\ corpus[k]["player"] = r["player"]

\* Row j of df is a record of the player of row i that is chronologically
\* before it: an earlier date, or the same date and earlier in the table given.
Before(j, i) ==
    /\ df.rows[j]["player"] = df.rows[i]["player"]
    /\ \/ df.rows[j]["date"] < df.rows[i]["date"]
       \/ /\ df.rows[j]["date"] = df.rows[i]["date"]
          /\ CorpusPos(df.rows[j]) < CorpusPos(df.rows[i])

Earlier(i) == {j \in 1..Len(df.rows) : Before(j, i)}

\* The w most recent records strictly before row i.
LastBefore(i, w) ==
    {j \in Earlier(i) : Cardinality({k \in Earlier(i) : Before(j, k)}) < w}

MeanOver(c, idx) == Mean(Pick(Col(df, c), idx))

RollingFeature(metric, w) ==
    CASE metric = "runs_scored" -> IF w = 5 THEN "runs_last_5_avg" ELSE "runs_last_10_avg"
      [] metric = "strike_rate" -> IF w = 5 THEN "strike_rate_last_5" ELSE "strike_rate_last_10"
      [] metric = "balls_faced" -> IF w = 5 THEN "balls_faced_last_5" ELSE "balls_faced_last_10"

BaseMetrics == {"runs_scored", "strike_rate", "balls_faced"}

\* The rolling features are in the table (from create_rolling_features on).
Rolled == HasColumn("runs_last_5_avg") /\ HasColumn("balls_faced_last_10")

\* C11: for every record, base metric and window w in {5, 10}, the rolling
\* feature is the mean of the metric over the player's w most recent records
\* strictly before it, and 0 for the player's first record.
C11_RollingIsMeanOfPriorWindow ==
    Rolled =>
        \A i \in 1..Len(df.rows) : \A metric \in BaseMetrics : \A w \in {5, 10} :
            df.rows[i][RollingFeature(metric, w)] =
                IF Earlier(i) = {} THEN Num(0)
                ELSE MeanOver(metric, LastBefore(i, w))

\* A twelfth record of a player: the 10-window leaves out the first record,
\* the 5-window six of them, and the features differ.
C11_Witness ==
    /\ Rolled
    /\ \E i \in 1..Len(df.rows) :
          /\ Cardinality(Earlier(i)) = 11
          /\ df.rows[i]["runs_last_5_avg"] # df.rows[i]["runs_last_10_avg"]
          /\ df.rows[i]["runs_last_10_avg"] # MeanOver("runs_scored", Earlier(i))
    /\ \E i \in 1..Len(df.rows) :
          Earlier(i) = {} /\ df.rows[i]["strike_rate_last_10"] = Num(0)

\* The table given, with other metric values in the record at position r.
AltMetrics == {[runs |-> 99, balls |-> 7], [runs |-> 0, balls |-> 30]}

AltCorpus(r, v) ==
    [corpus EXCEPT ![r] =
        [@ EXCEPT !["runs_scored"] = Num(v.runs), !["balls_faced"] = Num(v.balls),
                  !["strike_rate"] = Rat(v.runs * 100, v.balls)]]

AltRolled(r, v) == create_rolling_features([columns |-> BaseColumns, rows |-> AltCorpus(r, v)])

RowOf(r) == CHOOSE i \in 1..Len(df.rows) : CorpusPos(df.rows[i]) = r

\* C12: when the metric values of one record r are changed, the rolling
\* features of r itself, of every record of the same player strictly before
\* r and of every record of the other players are what they were.
C12_RollingIsCausal ==
    pc = "venue" =>
        \A r \in 1..Len(corpus) : \A v \in AltMetrics :
            \A alt \in {AltRolled(r, v).rows} : \A at \in {RowOf(r)} :
                \A i \in 1..Len(df.rows) :
                    /\ alt[i]["match_id"] = df.rows[i]["match_id"]
                    /\ (\/ i = at
                        \/ Before(i, at)
                        \/ df.rows[i]["player"] # df.rows[at]["player"])
                       => \A c \in RollingColumns : alt[i][c] = df.rows[i][c]

\* Two records of a player on one day, given in reverse order, with records
\* after them whose features do change with the metrics of the first.
C12_Witness ==
    /\ pc = "venue"
    /\ \E i, j \in 1..Len(df.rows) :
          /\ i < j
          /\ df.rows[i]["player"] = df.rows[j]["player"]
          /\ df.rows[i]["date"] = df.rows[j]["date"]
          /\ df.rows[i]["match_id"] > df.rows[j]["match_id"]
          /\ \E v \in AltMetrics :
                \E alt \in {AltRolled(CorpusPos(df.rows[i]), v).rows} :
                    alt[j]["runs_last_5_avg"] # df.rows[j]["runs_last_5_avg"]

Dimensions == {"venue", "opponent"}

DimensionFeature ==
    [venue |-> [runs |-> "venue_avg_runs", sr |-> "venue_avg_strike_rate",
                own |-> "player_venue_avg_runs"],
     opponent |-> [runs |-> "opponent_avg_runs", sr |-> "opponent_avg_strike_rate",
                   own |-> "player_opponent_avg_runs"]]

\* The rows with the value row i has in dimension D.
SameValue(D, i) == {j \in 1..Len(df.rows) : df.rows[j][D] = df.rows[i][D]}

\* The venue and the opponent features are in the table.
Contextual == HasColumn("player_venue_avg_runs") /\ HasColumn("player_opponent_avg_runs")

\* C13: player_<D>_avg_runs is the mean of runs_scored over the player's
\* earlier records with the record's D value, and the mean over all records
\* with that D value when the player has no such earlier record.
C13_PlayerDimensionAverage ==
    Contextual =>
        \A D \in Dimensions : \A i \in 1..Len(df.rows) :
            df.rows[i][DimensionFeature[D].own] =
                IF Earlier(i) \cap SameValue(D, i) = {}
                THEN MeanOver("runs_scored", SameValue(D, i))
                ELSE MeanOver("runs_scored", Earlier(i) \cap SameValue(D, i))

\* Both cases, each with a value the other rule would not give.
C13_Witness ==
    /\ Contextual
    /\ \E i \in 1..Len(df.rows) :
          /\ Cardinality(Earlier(i) \cap SameValue("venue", i)) >= 2
          /\ Earlier(i) \cap SameValue("venue", i) # Earlier(i)
          /\ df.rows[i]["player_venue_avg_runs"] # df.rows[i]["venue_avg_runs"]
          /\ df.rows[i]["player_venue_avg_runs"] # MeanOver("runs_scored", Earlier(i))
    /\ \E i \in 1..Len(df.rows) :
          /\ Earlier(i) # {}
          /\ Earlier(i) \cap SameValue("opponent", i) = {}
          /\ df.rows[i]["player_opponent_avg_runs"] = df.rows[i]["opponent_avg_runs"]
          /\ df.rows[i]["player_opponent_avg_runs"] # df.rows[i]["runs_scored"]

\* C14: <D>_avg_runs and <D>_avg_strike_rate are the means of runs_scored and
\* strike_rate over all records with the record's D value, itself included,
\* so records with the same D value carry the same two values.
C14_DimensionWideAverage ==
    Contextual =>
        \A D \in Dimensions : \A i \in 1..Len(df.rows) :
            /\ df.rows[i][DimensionFeature[D].runs] = MeanOver("runs_scored", SameValue(D, i))
            /\ df.rows[i][DimensionFeature[D].sr] = MeanOver("strike_rate", SameValue(D, i))
            /\ \A j \in SameValue(D, i) :
                  /\ df.rows[j][DimensionFeature[D].runs] = df.rows[i][DimensionFeature[D].runs]
                  /\ df.rows[j][DimensionFeature[D].sr] = df.rows[i][DimensionFeature[D].sr]

\* Records of two players at one venue carry one venue mean, which is the
\* runs of neither.
C14_Witness ==
    /\ Contextual
    /\ \E i, j \in 1..Len(df.rows) :
          /\ df.rows[i]["player"] # df.rows[j]["player"]
          /\ df.rows[i]["venue"] = df.rows[j]["venue"]
          /\ df.rows[i]["venue_avg_runs"] = df.rows[j]["venue_avg_runs"]
          /\ df.rows[i]["venue_avg_runs"] # df.rows[i]["runs_scored"]
          /\ df.rows[i]["venue_avg_runs"] # df.rows[j]["runs_scored"]
          /\ df.rows[i]["venue_avg_strike_rate"] # df.rows[i]["strike_rate"]

\* The records of a team, and how often a venue occurs among them.
TeamRows(team) == {i \in 1..Len(df.rows) : df.rows[i]["team"] = team}

VenueCount(team, venue) == Cardinality({i \in TeamRows(team) : df.rows[i]["venue"] = venue})

\* The most frequent venues of a team.
TopVenues(team) ==
    {df.rows[i]["venue"] : i \in {k \in TeamRows(team) :
        \A j \in TeamRows(team) :
            VenueCount(team, df.rows[j]["venue"]) <= VenueCount(team, df.rows[k]["venue"])}}

\* Where a venue is first met among the records in their sorted order.
FirstMet(team, venue) ==
    CHOOSE i \in TeamRows(team) :
        /\ df.rows[i]["venue"] = venue
        /\ \A j \in TeamRows(team) : df.rows[j]["venue"] = venue => i <= j

\* The home venue: the most frequent one, the first met of several.
HomeOf(team) ==
    CHOOSE v \in TopVenues(team) :
        \A u \in TopVenues(team) : FirstMet(team, v) <= FirstMet(team, u)

HomeDone == HasColumn("is_home_match")

PlayersOfTable == {df.rows[i]["player"] : i \in 1..Len(df.rows)}

\* A player's mean balls faced over the player's records.
MeanBalls(p) ==
    MeanOver("balls_faced", {i \in 1..Len(df.rows) : df.rows[i]["player"] = p})

\* The case of C16: 11 players with pairwise distinct mean balls faced.
ElevenDistinct ==
    /\ Cardinality(PlayersOfTable) = 11
    /\ \A p, q \in PlayersOfTable : p # q => MeanBalls(p) # MeanBalls(q)

\* Every player has one bucket in 1..11, no two players share one, and the
\* buckets go up with the mean balls faced.
BucketsUniqueOrdered ==
    /\ HasColumn("batting_position")
    /\ \A i, j \in 1..Len(df.rows) :
          /\ df.rows[i]["batting_position"] \in 1..11
          /\ RLess(MeanBalls(df.rows[i]["player"]), MeanBalls(df.rows[j]["player"]))
                <=> df.rows[i]["batting_position"] < df.rows[j]["batting_position"]

\* C16: on a table of 11 players with pairwise distinct mean balls faced,
\* whatever the number of records of each, the batting-position step gives
\* every player a bucket of its own in 1..11, in the order of the means.
C16_ElevenPlayersGetElevenBuckets ==
    [][(pc = "batting" /\ ElevenDistinct) => (pc' = "context" /\ BucketsUniqueOrdered')]_vars

\* The case of C17: the quantile boundaries of the binned values are fewer
\* than 12 distinct values.
TooFewBoundaries ==
    df.rows # <<>> /\ Cardinality(Range(BinEdges(df))) < Quantiles + 1

\* C17: when the quantile boundaries are too few to form 11 bins, the
\* batting-position step completes, and every record has a batting_position
\* in 1..11.
C17_FewerBinsWithoutError ==
    [][(pc = "batting" /\ TooFewBoundaries) =>
        /\ pc' = "context"
        /\ \A i \in 1..Len(df'.rows) : df'.rows[i]["batting_position"] \in 1..11]_vars

\* The match context columns are in the table.
InContext == HasColumn("days_since_last_match") /\ HasColumn("match_number_in_season")

\* The record of the player of row i that immediately precedes it.
Preceding(i) == CHOOSE j \in Earlier(i) : \A k \in Earlier(i) : ~Before(j, k)

DaysBetween(i) == df.rows[i]["date"] - df.rows[Preceding(i)]["date"]

\* C18: for every record, days_since_last_match is in [0, 30]: 7 for the
\* first record of a player, and otherwise the number of days from the date
\* of the same player's immediately preceding record, at most 30.
C18_DaysSinceLastMatch ==
    InContext =>
        \A i \in 1..Len(df.rows) :
            /\ df.rows[i]["days_since_last_match"] \in 0..30
            /\ df.rows[i]["days_since_last_match"] =
                  IF Earlier(i) = {} THEN 7
                  ELSE IF DaysBetween(i) > 30 THEN 30 ELSE DaysBetween(i)

\* One table holds a first record (7), a record a few days after the one
\* before it, and a record more than 30 days after the one before it (30).
C18_Witness ==
    /\ InContext
    /\ \E i \in 1..Len(df.rows) :
          Earlier(i) = {} /\ df.rows[i]["days_since_last_match"] = 7
    /\ \E i \in 1..Len(df.rows) :
          /\ Earlier(i) # {}
          /\ DaysBetween(i) \in 1..29
          /\ df.rows[i]["days_since_last_match"] = DaysBetween(i)
    /\ \E i \in 1..Len(df.rows) :
          /\ Earlier(i) # {}
          /\ DaysBetween(i) > 30
          /\ df.rows[i]["days_since_last_match"] = 30

\* The records of the player and the season of row i.
SeasonOf(i) ==
    {j \in 1..Len(df.rows) :
        /\ df.rows[j]["player"] = df.rows[i]["player"]
        /\ df.rows[j]["season"] = df.rows[i]["season"]}

\* C19: for every player and season, match_number_in_season numbers the
\* records of that player in that season 1, 2, ..., k in chronological order,
\* with no gap and no repeat, k being the number of such records.
C19_MatchNumberInSeason ==
    InContext =>
        \A i \in 1..Len(df.rows) :
            /\ {df.rows[j]["match_number_in_season"] : j \in SeasonOf(i)}
                  = 1..Cardinality(SeasonOf(i))
            /\ \A j \in SeasonOf(i) :
                  Before(j, i) => df.rows[j]["match_number_in_season"]
                                    < df.rows[i]["match_number_in_season"]

\* One table holds a player with two records in one season (numbers 1, 2)
\* and a player whose second record opens the next season (number 1 again).
C19_Witness ==
    /\ InContext
    /\ \E i \in 1..Len(df.rows) :
          Cardinality(SeasonOf(i)) >= 2 /\ df.rows[i]["match_number_in_season"] = 2
    /\ \E i \in 1..Len(df.rows) :
          Earlier(i) # {} /\ df.rows[i]["match_number_in_season"] = 1

(* ---------------- claims on the validation of requests ----------------- *)
\* Request i of the last call lacks a required field.
LacksRequired(i) == ~(RequiredFields \subseteq DOMAIN steps[i].item)

\* The caller is told of an error for request i of the last call: an error
\* response, or an error entry at the place of the item in the results.
Surfaced(i) ==
    /\ response # None
    /\ IF "predictions" \in DOMAIN response[1].body
       THEN "error" \in DOMAIN response[1].body["predictions"][i]
       ELSE response[1].status >= 400 /\ "error" \in DOMAIN response[1].body

\* The snapshot was searched for the statistics of the player of request i.
LookedUp(i) == steps[i].player_stats # None /\ features_df # None

\* C20: every online request that lacks one of player, team, opponent, venue,
\* sent to /api/predict or as an item of /api/predict/batch, is surfaced to
\* the caller as an error for that request, and nothing is derived for it:
\* no lookup of player statistics in the snapshot, no feature vector, no
\* model call.
C20_MissingFieldNoDerivation ==
    \A i \in 1..Len(steps) :
        LacksRequired(i) =>
            /\ Surfaced(i)
            /\ ~LookedUp(i)
            /\ steps[i].features = None
            /\ ~steps[i].model_called

(* ------------- claims on the persisted model and the response ---------- *)
\* The last call was a batch.
IsBatch == request # None /\ request[1].endpoint = "/api/predict/batch"

\* The model _make_prediction selected for request i of the last call.
ModelFor(i) == SelectModel(IF IsBatch THEN "" ELSE RequestedModel(steps[i].item))

\* The feature list of the model selected for request i is not the list of
\* the vector: other names, another order or another count.
SchemaMismatch(i) ==
    /\ ModelFor(i) # None
    /\ ModelFor(i)[1].feature_columns # VectorColumns

\* C21: whenever the feature list a persisted model was fitted on (names,
\* order and count) disagrees with the vector the online assembler produces,
\* the prediction is refused with an error: no prediction value is returned
\* from such a model.
C21_SchemaMismatchIsRefused ==
    \A i \in 1..Len(steps) :
        SchemaMismatch(i) => (steps[i].error # None /\ steps[i].prediction = None)

\* Request i of the last call got a prediction.
Succeeded(i) == steps[i].prediction # None

\* The name of the model asked for in request i ("" for none); a batch
\* passes no name on.
AskedFor(i) == IF IsBatch THEN "" ELSE RequestedModel(steps[i].item)

\* Request i went through _make_prediction.
Selected(i) == steps[i].player_stats # None

\* C29: a requested model_name that is among the loaded models is the model
\* used; a missing or unknown model_name falls back to the default model, and
\* model_used names the model actually used; when no model at all is loaded
\* the prediction fails with an error and returns no value.
C29_ModelSelection ==
    \A i \in 1..Len(steps) :
        Selected(i) =>
            /\ (AskedFor(i) \in DOMAIN all_models /\ Succeeded(i)) =>
                  /\ steps[i].prediction[1].model_used = AskedFor(i)
                  /\ all_models[AskedFor(i)].model_name = AskedFor(i)
            /\ (AskedFor(i) \notin DOMAIN all_models /\ model_data # None /\ Succeeded(i)) =>
                  steps[i].prediction[1].model_used = model_data[1].model_name
            /\ (all_models = EmptyDict /\ model_data = None) =>
                  /\ steps[i].error # None
                  /\ ~Succeeded(i)
                  /\ ~IsBatch => response[1].status # 200

\* A loaded model that is not the default one was asked for and used.
C29_Witness ==
    /\ Len(steps) = 1
    /\ Succeeded(1)
    /\ model_data # None
    /\ AskedFor(1) \in DOMAIN all_models
    /\ AskedFor(1) # model_data[1].model_name
    /\ response[1].body["model_used"] = AskedFor(1)

Within(x, lo, hi) == ~IsNaN(x) /\ ~RLess(x, Num(lo)) /\ ~RLess(Num(hi), x)

\* C30: every successful prediction returns predicted_runs in [0, 202] and
\* predicted_strike_rate in [80, 200], whatever the model output and the
\* request values are.
C30_PredictedValuesInRange ==
    \A i \in 1..Len(steps) :
        Succeeded(i) =>
            /\ Within(steps[i].prediction[1].predicted_runs, 0, 202)
            /\ Within(steps[i].prediction[1].predicted_strike_rate, 80, 200)

\* A model output above 200 was returned as 202 with the variation, and the
\* strike rate was raised to the lower limit.
C30_Witness ==
    /\ Len(steps) = 1
    /\ Succeeded(1)
    /\ response[1].body["predicted_runs"] = Num(202)
    /\ response[1].body["predicted_strike_rate"] = Num(80)

\* The response body without its mongo_id.
Unsaved(body) == [k \in DOMAIN body \ {"mongo_id"} |-> body[k]]

\* C27: persistence is optional for /api/predict: when MongoDB is absent,
\* not connected, or save_prediction fails, the request still returns the
\* prediction with status 200 and the same predicted values; only mongo_id
\* may be missing or null, and no computed prediction becomes an error.
C27_PersistenceIsOptional ==
    (Len(steps) = 1 /\ ~IsBatch /\ Succeeded(1)) =>
        /\ response[1].status = 200
        /\ Unsaved(response[1].body) = steps[1].prediction[1]
        /\ mongo # "connected" => "mongo_id" \notin DOMAIN response[1].body

\* The handler is connected, the save failed, the prediction was returned.
C27_Witness ==
    /\ Len(steps) = 1
    /\ ~IsBatch
    /\ Succeeded(1)
    /\ mongo = "connected"
    /\ response[1].status = 200
    /\ response[1].body["mongo_id"] = None

(* ------------------- claims on the batch endpoint ---------------------- *)
\* The items of the last call to /api/predict/batch.
BatchInputs == request[1].body

\* Entry e is what item gets when it is served alone: the error of its
\* derivation or prediction, or a prediction of its own vector.
ServedAlone(item, e) ==
    \E alone \in {Serve(item, "")} :
        IF alone.error # None
        THEN e = BatchResult(alone)
        ELSE \E draw \in BatchDraws : e = Predicted(alone, "", draw).prediction[1]

\* C28: /api/predict/batch isolates items: for every list of n prediction
\* inputs the response holds exactly n results in input order, an item whose
\* derivation or prediction fails yields an entry carrying an error for that
\* item only, and it changes neither the results of the other items nor the
\* overall status 200.
C28_BatchIsolatesItems ==
    (IsBatch /\ response # None) =>
        /\ response[1].status = 200
        /\ "predictions" \in DOMAIN response[1].body
        /\ Len(response[1].body["predictions"]) = Len(BatchInputs)
        /\ \A i \in 1..Len(BatchInputs) :
              ServedAlone(BatchInputs[i], response[1].body["predictions"][i])

(* ---------------------- claims on concurrency -------------------------- *)
\* The vector of the request thread t handles, built by a handler that runs
\* alone on the tables as they are.
VectorAlone(t) == Derivation(threads[t].data).features

\* A step of the server leaves the shared tables as they are, and a thread
\* that builds its vector builds the one of a handler running alone.
C22_Step ==
    /\ (backend_up /\ backend_up') =>
          /\ features_df' = features_df
          /\ players_stats' = players_stats
    /\ \A t \in Threads :
          (threads[t].stage = "assemble" /\ threads'[t].stage = "predict") =>
              threads'[t].features = Some(VectorAlone(t))

\* C22: under any interleaving of concurrent online prediction requests the
\* shared snapshot (features_df and the statistics derived from it at
\* start-up) is never modified, and the feature vector built for each
\* request equals the one built when that request runs alone.
C22_SnapshotIsReadOnly ==
    /\ [][C22_Step]_vars
    /\ [](\A t \in Threads :
            (backend_up /\ threads[t].features # None) =>
                /\ threads[t].features = Some(VectorAlone(t))
                /\ players_stats = prepare_statistics(features_df))

\* Two requests for different players are in flight, both with their
\* vectors built, from a table that has records.
C22_Witness ==
    /\ backend_up
    /\ features_df # None
    /\ \E t, u \in Threads :
          /\ t # u
          /\ threads[t].stage = "predict"
          /\ threads[u].stage = "predict"
          /\ threads[t].data["player"] # threads[u].data["player"]
          /\ threads[t].player_stats[1] # EmptyDict
          /\ threads[t].features # threads[u].features

(* ---------------------- claims on the confidence ----------------------- *)
\* The tiers of the fallback hierarchy at which the handlers resolve
\* runs_last_5_avg and strike_rate_last_5 for a request: 1 the caller's
\* value, 2 the records of the player (the statistics merged into the
\* request, or the mean the assembler takes), 3 the mean over the whole
\* table, 4 the literal default.
RecencyTiers(data) ==
    LET player_stats == _get_player_recent_stats(features_df, data["player"])
        prediction_input == MergeDicts(data, player_stats)
        runs == Get(prediction_input, "runs_last_5_avg", PyNone)
        sr == Get(prediction_input, "strike_rate_last_5", PyNone)
        From(f) == IF f \in DOMAIN player_stats THEN 2 ELSE 1
    IN  IF runs = PyNone /\ features_df # None
        THEN IF MatchingRows(features_df, "player", data["player"]) # <<>>
             THEN <<2, IF sr # PyNone THEN From("strike_rate_last_5") ELSE 2>>
             ELSE <<3, 3>>
        ELSE <<IF runs # PyNone THEN From("runs_last_5_avg") ELSE 4,
               IF sr # PyNone THEN From("strike_rate_last_5") ELSE 4>>

\* The label a request gets.
Label(data) ==
    _calculate_confidence(
        MergeDicts(data, _get_player_recent_stats(features_df, data["player"])))

\* The requests that pass the check of the required fields.
Checked == {r \in ServedRequests : RequiredFields \subseteq DOMAIN r}

\* No record matches the player of the request, and the request carries
\* neither recency field.
UnknownNoOverride(data) ==
    /\ _get_player_recent_stats(features_df, data["player"]) = EmptyDict
    /\ "runs_last_5_avg" \notin DOMAIN data
    /\ "strike_rate_last_5" \notin DOMAIN data

\* The label is the same for the requests resolved at the same tiers.
C23_SameTiersSameLabel ==
    \A i \in 1..Len(steps) :
        (Succeeded(i) /\ ~IsBatch) =>
            \A other \in Checked :
                RecencyTiers(other) = RecencyTiers(steps[i].item) =>
                    Label(other) = steps[i].prediction[1].confidence

\* An unknown player with no recency override gets less than 'high'.
C23_UnknownIsLowered ==
    \A i \in 1..Len(steps) :
        (Succeeded(i) /\ UnknownNoOverride(steps[i].item)) =>
            steps[i].prediction[1].confidence \in {"medium", "low"}

\* C23: the confidence label of a prediction (high / medium / low) is
\* determined by which fallback tier supplied runs_last_5_avg and
\* strike_rate_last_5: any two requests whose two recency fields were
\* resolved at the same tiers receive the same label, and a request whose
\* player matches no historical record and that carries no recency override
\* receives a lower label than 'high'.
C23_ConfidenceFollowsTiers == C23_SameTiersSameLabel /\ C23_UnknownIsLowered

(* ------------- claims on the two paths to the recency fields ----------- *)
\* The request names a player whose name matches records of the snapshot,
\* all of them the player's own, and carries neither recency field.
OwnRecordsOnly(data) ==
    /\ features_df # None
    /\ MatchingRows(features_df, "player", data["player"]) # <<>>
    /\ \A r \in Range(MatchingRows(features_df, "player", data["player"])) :
          r["player"] = data["player"]
    /\ "runs_last_5_avg" \notin DOMAIN data
    /\ "strike_rate_last_5" \notin DOMAIN data

\* The columns create_rolling_features reads.
RollingInputs == <<"player", "date", "runs_scored", "balls_faced", "strike_rate">>

\* The records of the snapshot with a new record of the player, dated after
\* all the records there are.
WithNewRecord(player) ==
    LET rows == [i \in 1..Len(features_df[1].rows) |->
                    [c \in Range(RollingInputs) |-> features_df[1].rows[i][c]]]
        latest == CHOOSE d \in {rows[i]["date"] : i \in 1..Len(rows)} :
                      \A i \in 1..Len(rows) : rows[i]["date"] <= d
    IN  [columns |-> RollingInputs,
         rows |-> Append(rows, [player |-> player, date |-> latest + 1,
                                runs_scored |-> Num(0), balls_faced |-> Num(1),
                                strike_rate |-> Num(0)])]

\* What the Rolling Form Calculator assigns to the new record.
BatchRecency(player, c) ==
    LET rolled == create_rolling_features(WithNewRecord(player))
        new == CHOOSE i \in 1..Len(rolled.rows) :
                  /\ rolled.rows[i]["player"] = player
                  /\ \A j \in 1..Len(rolled.rows) :
                        rolled.rows[j]["date"] <= rolled.rows[i]["date"]
    IN  rolled.rows[new][c]

\* C26: for a player whose name matches only that player's own records, the
\* runs_last_5_avg and strike_rate_last_5 the online path computes live (no
\* override) equal the values the batch Rolling Form Calculator assigns to a
\* new record of that player dated after all existing ones, i.e. the mean
\* over that player's min(5, k) most recent records.
C26_LiveRecencyEqualsBatch ==
    (call # None /\ OwnRecordsOnly(call[1].input_data)) =>
        /\ FeatureAt(call[1].features, "runs_last_5_avg")
              = BatchRecency(call[1].input_data["player"], "runs_last_5_avg")
        /\ FeatureAt(call[1].features, "strike_rate_last_5")
              = BatchRecency(call[1].input_data["player"], "strike_rate_last_5")

(* ------------------- claims on the player-match table ------------------ *)
\* The (player, match) pairs of the deliveries file in which the player
\* faced a ball that is neither a wide nor a no-ball.
FacedValidBall ==
    {<<d["batsman"], d["match_id"]>> :
        d \in {b \in Range(loader[1].deliveries_file) : b["wides"] = 0 /\ b["noballs"] = 0}}

RecordsOf(player, match) ==
    {i \in 1..Len(corpus) : corpus[i]["player"] = player /\ corpus[i]["match_id"] = match}

\* The player-match table has been produced.
Aggregated == pc = "rolling" /\ loader # NoLoader

\* C24: the player-match table produced by aggregate_match_stats has exactly
\* one record per (player, match) pair that faced at least one valid ball,
\* every record has balls_faced > 0, and its strike_rate equals
\* runs_scored / balls_faced x 100.
C24_OneRecordPerPlayerMatch ==
    Aggregated =>
        /\ \A pm \in FacedValidBall : Cardinality(RecordsOf(pm[1], pm[2])) = 1
        /\ \A i \in 1..Len(corpus) :
              /\ <<corpus[i]["player"], corpus[i]["match_id"]>> \in FacedValidBall
              /\ RLess(Num(0), corpus[i]["balls_faced"])
              /\ RMul(corpus[i]["strike_rate"], corpus[i]["balls_faced"])
                    = RMul(Num(100), corpus[i]["runs_scored"])

(* ------------------- claims on the batch assembly ---------------------- *)
BaseValues ==
    {"player", "team", "opponent", "venue", "date", "runs_scored", "balls_faced"}

BaseOf(r) == [c \in BaseValues |-> r[c]]

Occurrences(rows, b) == Cardinality({i \in 1..Len(rows) : BaseOf(rows[i]) = b})

\* The rows of the table are the records of the corpus, each once, with the
\* base values they had.
SameRecords ==
    /\ Len(df.rows) = Len(corpus)
    /\ \A i \in 1..Len(corpus) :
          Occurrences(df.rows, BaseOf(corpus[i])) = Occurrences(corpus, BaseOf(corpus[i]))

\* engineer_all_features has returned: the run goes on to save the table.
Engineered == pc = "save"

\* C25: batch assembly preserves the corpus: engineer_all_features returns
\* exactly one row per input record - no record dropped, none duplicated, and
\* each row's base values (player, team, opponent, venue, date, runs_scored,
\* balls_faced) equal to those of the input record it comes from - for every
\* input corpus and every row order.
C25_AssemblyPreservesCorpus ==
    /\ pc # "failed"
    /\ Engineered => SameRecords

====
